---------------------------- MODULE Spec2Model ----------------------------
(***************************************************************************)
(* State-machine model of the humid-temp-monitor firmware:                 *)
(*   - the link manager      (components/network/app_wifi.c)               *)
(*   - the broker manager    (components/network/app_mqtt.c)               *)
(*   - the task orchestrator (components/system/system_task.c)             *)
(*   - the application       (main/main.c: startup, callbacks, supervisor) *)
(*   - the sensor driver     (components/sensor/sensor_dht.c)              *)
(* Each event handler / public function is one action.  The drivers        *)
(* (WiFi, IP stack, MQTT client) are the environment: they deliver events. *)
(***************************************************************************)
EXTENDS Integers, Sequences, FiniteSets, TLC

(***************************************************************************)
(* Program constants                                                       *)
(***************************************************************************)
WIFI_MAX_RETRIES == 15
WIFI_RETRY_MIN_MS == 1000
WIFI_RETRY_MAX_MS == 60000
UINT32_BITS == 32
HALF_WORD == 2 ^ 16
MQTT_BACKOFF_INIT_MS == 1000
MQTT_BACKOFF_LIMIT_MS == 60000
MQTT_QUEUE_LEN == 10
FAN_VALUE_MAX == 255
SENSOR_QUEUE_LEN == 5
MAIN_WIFI_MAX_RETRIES == 5
DHT_START_LOW_MS == 18
DHT_MIN_INTERVAL_MS == 1000
DHT_HEALTH_WINDOW_MS == 30000
UINT8_RANGE == 256

(***************************************************************************)
(* Bounds of the model                                                     *)
(***************************************************************************)
\* how many times the driver delivers a link-lost event once the retry
\* budget is exhausted (bounds the code's total_failed_attempts counter)
MaxFailedAttempts == 2
\* largest max_retries a caller configures, beyond the small ones
MaxRetriesCfg == 33

\* MQTT_EVENT_DISCONNECTED events the client delivers (bounds reconnect_count)
MaxMqttDisconnects == 7
\* MQTT_EVENT_DATA events the client delivers (bounds messages_received)
MaxMessages == 2

\* iterations of the sampler's loop (bounds read_sequence, sensor_read_count
\* and sensor_error_count); one more than the sensor queue holds
MaxSensorReads == 6
\* app_mqtt_publish calls that reach a counter (bounds messages_published and
\* publish_failures)
MaxPublishes == 3
\* MQTT_EVENT_DATA events of a burst that outruns the command consumer
\* (one more than the command queue holds)
MaxBurstMessages == 11

\* mutating SystemStatus calls followed at statement level
MaxStatusCalls == 4

\* clock advances and wire transactions of the sensor driver
MaxClockSteps == 5

\* the max_retries values app_wifi_init is called with (0 selects the default)
RetryBudgets == {0, 1, 2, 3, MaxRetriesCfg - 3, MaxRetriesCfg}

VARIABLES
    g_wifi_ctx,        \* wifi_context_t: config, state, flags, retry fields
    wifi_event_bits,   \* bits set in g_wifi_ctx.event_group
    wifi_last_event,   \* the event the link manager handled last
    wifi_fired,        \* what the last handler invocation did to the outside
    lost_since_ip,     \* link-lost events since init / the last address assignment
    connects_since_ip, \* esp_wifi_connect() calls since init / the last address assignment
    failed_cb_calls,   \* invocations of config.on_connect_failed since init
    ip_assigned,       \* an address was assigned for the current association
    ip_reset_from,     \* "none" | "zero" | "nonzero": retry_count just before the last assignment
    wait_result        \* return value of the last app_wifi_wait_connected ("NONE": not just returned)

wifi_vars == <<g_wifi_ctx, wifi_event_bits, wifi_last_event, wifi_fired,
               lost_since_ip, connects_since_ip, failed_cb_calls, ip_assigned,
               ip_reset_from, wait_result>>

VARIABLES
    g_mqtt_ctx,          \* mqtt_context_t: flags, backoff, counters
    mqtt_command_queue,  \* g_mqtt_ctx.command_queue: mqtt_command_t items, oldest first
    mqtt_last_event,     \* the event mqtt_event_handler handled last
    mqtt_prev_delay,     \* reconnect_delay_ms just before that event
    g_system_events,     \* bits set in the orchestrator's event group
    g_system_status,     \* system_status_t: state, last_error, error_count
    g_command_queue,     \* the orchestrator's control_message_t queue
    mqtt_rx_pc,          \* task_mqtt_receive: "wait_broker" | "loop"
    rx_dequeued,         \* the command consumer's last step dequeued a command
    rx_last_cmd,         \* the command it dequeued last
    rx_error_delta,      \* by how much that step raised error_count
    driver_calls         \* OutputDriver calls made by the last worker step

broker_vars == <<g_mqtt_ctx, mqtt_command_queue, mqtt_last_event, mqtt_prev_delay,
                 g_system_events, g_system_status, g_command_queue, mqtt_rx_pc,
                 rx_dequeued, rx_last_cmd, rx_error_delta, driver_calls>>

VARIABLES
    burst_payload,       \* the payload of the last MQTT_EVENT_DATA of a burst
    enq_count            \* commands the broker command queue accepted during bursts

burst_vars == <<burst_payload, enq_count>>

VARIABLES
    publish_call         \* the last app_mqtt_publish call: arguments, the flags it
                         \* found, its return value, client calls, counter changes

publish_vars == <<publish_call>>

VARIABLES
    g_sensor_queue,      \* the orchestrator's sensor_message_t queue, oldest first
    read_sequence,       \* task_sensor_read's local sequence counter
    sampler_runs,        \* iterations of task_sensor_read observed so far
    sampler_read,        \* what sensor_dht_read returned in the last of them
    sampler_offered,     \* the messages that iteration passed to xQueueSend
    api_toggle,          \* flips with every call of system_task_queue_sensor_data
    api_result           \* the return value of the last call

sensor_vars == <<g_sensor_queue, read_sequence, sampler_runs, sampler_read,
                 sampler_offered, api_toggle, api_result>>

sampler_ghosts == <<sampler_runs, sampler_read, sampler_offered, api_toggle, api_result>>

\* broker_vars without g_system_events and g_system_status
broker_rest_events == <<g_mqtt_ctx, mqtt_command_queue, mqtt_last_event, mqtt_prev_delay,
                        g_command_queue, mqtt_rx_pc,
                        rx_dequeued, rx_last_cmd, rx_error_delta, driver_calls>>

\* broker_vars without g_system_status
broker_rest == <<g_mqtt_ctx, mqtt_command_queue, mqtt_last_event, mqtt_prev_delay,
                 g_system_events, g_command_queue, mqtt_rx_pc,
                 rx_dequeued, rx_last_cmd, rx_error_delta, driver_calls>>

VARIABLES
    main_pc,             \* app_main: "wifi_init" | "mqtt_init" | "loop"
    main_last_state      \* app_main's static last_state

main_vars == <<main_pc, main_last_state>>

VARIABLES
    g_status_mutex,      \* g_status_mutex: "free", or the task inside a critical section
    status_pc,           \* per task: the statements left of the status call it is in
    status_tmp,          \* per task: the counter value its "count++" has loaded
    status_uptime_ms,    \* g_system_status.uptime_ms
    status_now,          \* esp_timer_get_time() / 1000 as the status calls read it
    status_snapshot,     \* <<>>, or <<the copy the last system_task_get_status returned>>
    status_committed,    \* the status record as it stood after each completed call
    status_calls         \* mutating status calls started so far

status_vars == <<g_status_mutex, status_pc, status_tmp, status_uptime_ms, status_now,
                 status_snapshot, status_committed, status_calls>>

VARIABLES
    g_dht_context,       \* dht_context_t: initialized, last_read_ms, last_reading
    dht_now,             \* esp_timer_get_time() / 1000, 64 bits wide, as <<high, low>>
    dht_ticks,           \* clock advances and wire transactions so far
    dht_toggle,          \* flips with every call of the sensor API
    dht_call,            \* the last call: function, return value, output reading,
                         \* whether the wire protocol ran, the frame it decoded
    dht_success          \* <<>>, or <<when the last successful decode was started and
                         \* the reading it returned>>

dht_vars == <<g_dht_context, dht_now, dht_ticks, dht_toggle, dht_call, dht_success>>

VARIABLES
    g_output_ctx,        \* output_context_t: relay_state, fan_speed, is_enabled,
                         \* initialized and the ramp parameters
    gpio_relay_level,    \* the level driven on the relay pin
    ledc_channel,        \* the PWM channel: the duty last set, and the duty in effect
    ramp_tasks,          \* per ramp task slot: its position in task_fan_ramp and its locals
    output_now,          \* esp_timer_get_time() / 1000 as the output module reads it
    output_call,         \* the last call of the output API: function and return value
    output_off_by        \* which call switched the module off last, "none" once it
                         \* is enabled again

output_vars == <<g_output_ctx, gpio_relay_level, ledc_channel, ramp_tasks, output_now,
                 output_call, output_off_by>>

VARIABLES
    g_app_config,        \* app_config_t: the pins, the QoS and the three string buffers
                         \* that app_config_load reads from NVS
    nvs_flash,           \* the NVS partition: initialized, whether the namespace
                         \* "smarthome" exists, and per key <<>> or <<stored value>>
    config_call,         \* the last call of the configuration API: function, return
                         \* value, whether it changed the configuration in memory
    config_saved         \* <<>>, or <<the credentials of the last app_config_save_wifi
                         \* that returned APP_OK>>

config_vars == <<g_app_config, nvs_flash, config_call, config_saved>>

VARIABLES
    link_now,            \* esp_timer_get_time() / 1000 while the link manager runs
    link_retry           \* <<>>, or <<when the last link-lost event with retries left
                         \* arrived, when its esp_wifi_connect() was issued, and the
                         \* backoff delay computed for it>>

link_vars == <<link_now, link_retry>>

\* the variables of the statement-level model, of the sensor driver, of the
\* output module and of the configuration store
aux_vars == <<status_vars, dht_vars, output_vars, config_vars, link_vars>>

vars == <<wifi_vars, broker_vars, burst_vars, publish_vars, sensor_vars, main_vars,
          aux_vars>>

\* everything but the link manager's / the broker path's variables
not_wifi == <<broker_vars, burst_vars, publish_vars, sensor_vars, main_vars, aux_vars>>
not_broker == <<wifi_vars, burst_vars, publish_vars, sensor_vars, main_vars, aux_vars>>

\* the variables only observers and callers outside app_main use
side_vars == <<burst_vars, publish_vars, sensor_vars, aux_vars>>

(***************************************************************************)
(* 32-bit unsigned arithmetic.  A uint32_t is kept as <<high, low>> 16-bit *)
(* halves so that the wrap-around of a left shift is computed exactly.     *)
(***************************************************************************)
U32(n) == <<n \div HALF_WORD, n % HALF_WORD>>

Shl1(v) == <<(2 * v[1] + (2 * v[2]) \div HALF_WORD) % HALF_WORD, (2 * v[2]) % HALF_WORD>>

RECURSIVE Shl32(_, _)
Shl32(v, n) == IF n = 0 THEN v ELSE Shl32(Shl1(v), n - 1)

U32Gt(v, k) == v[1] > 0 \/ v[2] > k

\* if (delay > WIFI_RETRY_MAX_MS) delay = WIFI_RETRY_MAX_MS;
CapDelay(v) == IF U32Gt(v, WIFI_RETRY_MAX_MS) THEN WIFI_RETRY_MAX_MS ELSE v[2]

\* WIFI_RETRY_MIN_MS << retry_count.  A shift count >= 32 is undefined in C:
\* the builds either use the low five bits of the count or shift everything out.
ShiftOutcomes(retry_count) ==
    IF retry_count < UINT32_BITS
    THEN {Shl32(U32(WIFI_RETRY_MIN_MS), retry_count)}
    ELSE {Shl32(U32(WIFI_RETRY_MIN_MS), retry_count % UINT32_BITS), U32(0)}

\* wifi_calculate_backoff: the delays the call can return
wifi_calculate_backoff(retry_count) ==
    {CapDelay(v) : v \in ShiftOutcomes(retry_count)}

(***************************************************************************)
(* Link manager                                                            *)
(***************************************************************************)
WifiStates == {"INIT", "STARTING", "CONNECTING", "CONNECTED", "DISCONNECTED", "FAILED"}

\* static wifi_context_t g_wifi_ctx = {0};
WifiInit ==
    /\ g_wifi_ctx = [max_retries |-> 0, on_connect_failed |-> FALSE,
                     state |-> "INIT", initialized |-> FALSE, connected |-> FALSE,
                     retry_count |-> 0, retry_delay_ms |-> 0,
                     total_failed_attempts |-> 0]
    /\ wifi_event_bits = {}
    /\ wifi_last_event = "NONE"
    /\ wifi_fired = {}
    /\ lost_since_ip = 0
    /\ connects_since_ip = 0
    /\ failed_cb_calls = 0
    /\ ip_assigned = FALSE
    /\ ip_reset_from = "none"
    /\ wait_result = "NONE"

\* wifi_update_state(new_state)
wifi_update_state(ctx, new_state) ==
    IF ctx.state # new_state THEN [ctx EXCEPT !.state = new_state] ELSE ctx

\* app_wifi_init(config): copies the config, defaults max_retries, starts the
\* driver and sets the initial state.
app_wifi_init(retries, has_failed_cb) ==
    /\ ~g_wifi_ctx.initialized
    /\ g_wifi_ctx' = [g_wifi_ctx EXCEPT
                        !.max_retries = IF retries = 0 THEN WIFI_MAX_RETRIES ELSE retries,
                        !.on_connect_failed = has_failed_cb,
                        !.state = "STARTING",
                        !.initialized = TRUE,
                        !.connected = FALSE,
                        !.retry_count = 0,
                        !.retry_delay_ms = WIFI_RETRY_MIN_MS,
                        !.total_failed_attempts = 0]
    /\ wifi_last_event' = "INIT"
    /\ wifi_fired' = {}
    /\ wait_result' = "NONE"
    /\ UNCHANGED <<wifi_event_bits, lost_since_ip, connects_since_ip,
                   failed_cb_calls, ip_assigned, ip_reset_from>>

AppWifiInit ==
    \E retries \in RetryBudgets, has_failed_cb \in BOOLEAN :
        app_wifi_init(retries, has_failed_cb)

\* case WIFI_EVENT_STA_START (delivered once, after esp_wifi_start)
HandleStaStart ==
    /\ g_wifi_ctx.initialized
    /\ wifi_last_event = "INIT"
    /\ g_wifi_ctx' = wifi_update_state(g_wifi_ctx, "CONNECTING")
    /\ wifi_last_event' = "STA_START"
    /\ wifi_fired' = {"esp_wifi_connect"}
    /\ connects_since_ip' = connects_since_ip + 1
    /\ wait_result' = "NONE"
    /\ UNCHANGED <<wifi_event_bits, lost_since_ip, failed_cb_calls, ip_assigned,
                   ip_reset_from>>

\* the driver has been started and delivers link and IP events
DriverRunning == g_wifi_ctx.initialized /\ wifi_last_event \notin {"NONE", "INIT"}

\* case WIFI_EVENT_STA_CONNECTED
HandleStaConnected ==
    /\ DriverRunning
    /\ g_wifi_ctx' = wifi_update_state(g_wifi_ctx, "CONNECTED")
    /\ wifi_last_event' = "STA_CONNECTED"
    /\ wifi_fired' = {}
    /\ ip_assigned' = FALSE
    /\ wait_result' = "NONE"
    /\ UNCHANGED <<wifi_event_bits, lost_since_ip, connects_since_ip,
                   failed_cb_calls, ip_reset_from>>

\* the retry branch of WIFI_EVENT_STA_DISCONNECTED (retry_count < max_retries)
DisconnectedRetry(ctx, delay) ==
    [ctx EXCEPT !.retry_delay_ms = delay, !.retry_count = ctx.retry_count + 1]

\* the else branch of WIFI_EVENT_STA_DISCONNECTED (budget exhausted)
DisconnectedFail(ctx) ==
    wifi_update_state(
        [ctx EXCEPT !.total_failed_attempts = ctx.total_failed_attempts + 1],
        "FAILED")

\* a budget test that lets one retry too many through
RetriesRemain_OneMore(ctx) == ctx.retry_count <= ctx.max_retries

\* if (g_wifi_ctx.retry_count < g_wifi_ctx.config.max_retries)
RetriesRemain(ctx) == ctx.retry_count < ctx.max_retries

\* case WIFI_EVENT_STA_DISCONNECTED
HandleStaDisconnected ==
    /\ DriverRunning
    /\ g_wifi_ctx.total_failed_attempts < MaxFailedAttempts
    /\ LET ctx1 == [wifi_update_state(g_wifi_ctx, "DISCONNECTED")
                        EXCEPT !.connected = FALSE]
       IN  IF RetriesRemain(ctx1)
           THEN /\ \E delay \in wifi_calculate_backoff(ctx1.retry_count) :
                        g_wifi_ctx' = DisconnectedRetry(ctx1, delay)
                /\ wifi_event_bits' = wifi_event_bits \cup {"WIFI_DISCONNECTED_BIT"}
                /\ wifi_fired' = {"on_disconnected", "esp_wifi_connect"}
                /\ connects_since_ip' = connects_since_ip + 1
                /\ UNCHANGED failed_cb_calls
           ELSE /\ g_wifi_ctx' = DisconnectedFail(ctx1)
                /\ wifi_event_bits' = wifi_event_bits \cup
                                        {"WIFI_DISCONNECTED_BIT", "WIFI_FAIL_BIT"}
                /\ wifi_fired' = {"on_disconnected"} \cup
                        (IF ctx1.on_connect_failed THEN {"on_connect_failed"} ELSE {})
                /\ failed_cb_calls' = failed_cb_calls +
                                        (IF ctx1.on_connect_failed THEN 1 ELSE 0)
                /\ UNCHANGED connects_since_ip
    /\ wifi_last_event' = "STA_DISCONNECTED"
    /\ lost_since_ip' = lost_since_ip + 1
    /\ ip_assigned' = FALSE
    /\ wait_result' = "NONE"
    /\ UNCHANGED ip_reset_from

\* an address-assigned handler that forgets to reset retry_count
GotIpContext_NoReset(ctx) ==
    [ctx EXCEPT !.retry_delay_ms = WIFI_RETRY_MIN_MS, !.connected = TRUE]

\* IP_EVENT_STA_GOT_IP: the fields the handler writes
GotIpContext(ctx) ==
    [ctx EXCEPT !.retry_count = 0,
                !.retry_delay_ms = WIFI_RETRY_MIN_MS,
                !.connected = TRUE]

\* IP_EVENT_STA_GOT_IP
HandleGotIp ==
    /\ DriverRunning
    /\ g_wifi_ctx' = GotIpContext(g_wifi_ctx)
    /\ wifi_event_bits' = wifi_event_bits \cup {"WIFI_CONNECTED_BIT"}
    /\ wifi_last_event' = "GOT_IP"
    /\ wifi_fired' = {"on_connected"}
    /\ lost_since_ip' = 0
    /\ connects_since_ip' = 0
    /\ ip_assigned' = TRUE
    /\ ip_reset_from' = IF g_wifi_ctx.retry_count > 0 THEN "nonzero" ELSE "zero"
    /\ wait_result' = "NONE"
    /\ UNCHANGED failed_cb_calls

\* IP_EVENT_STA_LOST_IP
HandleLostIp ==
    /\ DriverRunning
    /\ g_wifi_ctx' = [g_wifi_ctx EXCEPT !.connected = FALSE]
    /\ wifi_last_event' = "LOST_IP"
    /\ wifi_fired' = {}
    /\ ip_assigned' = FALSE
    /\ wait_result' = "NONE"
    /\ UNCHANGED <<wifi_event_bits, lost_since_ip, connects_since_ip,
                   failed_cb_calls, ip_reset_from>>

\* app_wifi_disconnect(): esp_wifi_disconnect() succeeded
AppWifiDisconnect ==
    /\ g_wifi_ctx.initialized
    /\ g_wifi_ctx' = [g_wifi_ctx EXCEPT !.connected = FALSE]
    /\ wait_result' = "NONE"
    /\ UNCHANGED <<wifi_event_bits, wifi_last_event, wifi_fired, lost_since_ip,
                   connects_since_ip, failed_cb_calls, ip_assigned, ip_reset_from>>

\* the value app_wifi_wait_connected returns for the bits xEventGroupWaitBits
\* hands back (neither bit set: the wait ran into its timeout)
WaitResultFor(bits) ==
    IF "WIFI_CONNECTED_BIT" \in bits THEN "APP_OK"
    ELSE IF "WIFI_FAIL_BIT" \in bits THEN "APP_ERR_WIFI_CONNECT"
    ELSE "APP_ERR_TIMEOUT"

\* app_wifi_wait_connected(timeout_ms): returns at once when a bit is set,
\* otherwise when the timeout elapses (bits are not cleared on exit: pdFALSE)
AppWifiWaitConnected ==
    /\ wait_result' = IF ~g_wifi_ctx.initialized THEN "APP_ERR_UNKNOWN"
                      ELSE WaitResultFor(wifi_event_bits)
    /\ UNCHANGED <<g_wifi_ctx, wifi_event_bits, wifi_last_event, wifi_fired,
                   lost_since_ip, connects_since_ip, failed_cb_calls, ip_assigned,
                   ip_reset_from>>

(***************************************************************************)
(* Broker manager                                                          *)
(***************************************************************************)
\* inbound payloads: what cJSON makes of them.  The type strings drawn here
\* are shorter than every buffer they are copied through.
CommandTypes == {"relay", "fan", "light"}
CommandValues == {-1, 0, 1, 2, FAN_VALUE_MAX, FAN_VALUE_MAX + 1}

WellFormedPayloads ==
    [json : {TRUE}, type_is_string : {TRUE}, type : CommandTypes,
     value_is_number : {TRUE}, value : CommandValues]

MalformedPayloads ==
    { [json |-> FALSE, type_is_string |-> FALSE, type |-> "", value_is_number |-> FALSE, value |-> 0],
      [json |-> TRUE, type_is_string |-> FALSE, type |-> "", value_is_number |-> TRUE, value |-> 1],
      [json |-> TRUE, type_is_string |-> TRUE, type |-> "relay", value_is_number |-> FALSE, value |-> 0] }

Payloads == WellFormedPayloads \cup MalformedPayloads

NoCommand == [type |-> "", value |-> 0]

\* static mqtt_context_t g_mqtt_ctx = {0}; orchestrator state after
\* system_task_init and system_task_start_all
\* memset(&g_system_status, 0, ...) and state = SYSTEM_STATE_INIT
ZeroStatus ==
    [state |-> "INIT", last_error |-> "NONE", error_count |-> 0,
     sensor_read_count |-> 0, sensor_error_count |-> 0]

\* the broker path and the orchestrator's objects while the status record is
\* status
BrokerStart(status) ==
    /\ g_mqtt_ctx = [initialized |-> FALSE, connected |-> FALSE,
                     reconnect_delay_ms |-> 0, reconnect_count |-> 0,
                     messages_received |-> 0, messages_published |-> 0,
                     publish_failures |-> 0]
    /\ mqtt_command_queue = <<>>
    /\ mqtt_last_event = "NONE"
    /\ mqtt_prev_delay = 0
    /\ g_system_events = {}
    /\ g_system_status = status
    /\ g_command_queue = <<>>
    /\ mqtt_rx_pc = "wait_broker"
    /\ rx_dequeued = FALSE
    /\ rx_last_cmd = NoCommand
    /\ rx_error_delta = 0
    /\ driver_calls = <<>>

\* after system_task_init and system_task_start_all
BrokerInit == BrokerStart([ZeroStatus EXCEPT !.state = "HARDWARE_READY"])

rx_ghosts == <<rx_dequeued, rx_last_cmd, rx_error_delta, driver_calls>>

\* app_mqtt_init(config): creates the queue, starts the client, sets the backoff
AppMqttInit ==
    /\ ~g_mqtt_ctx.initialized
    /\ g_mqtt_ctx' = [g_mqtt_ctx EXCEPT !.initialized = TRUE,
                                        !.reconnect_delay_ms = MQTT_BACKOFF_INIT_MS,
                                        !.reconnect_count = 0]
    /\ mqtt_last_event' = "INIT"
    /\ mqtt_prev_delay' = g_mqtt_ctx.reconnect_delay_ms
    /\ UNCHANGED <<mqtt_command_queue, g_system_events, g_system_status,
                   g_command_queue, mqtt_rx_pc, rx_ghosts>>

\* system_status_update_state(new_state)
system_status_update_state(status, new_state) == [status EXCEPT !.state = new_state]

\* system_status_record_error(error_code)
system_status_record_error(status, error_code) ==
    [status EXCEPT !.last_error = error_code, !.error_count = status.error_count + 1]

\* case MQTT_EVENT_CONNECTED; config.on_connected is main.c's on_mqtt_connected,
\* which calls system_task_signal_mqtt_connected
HandleMqttConnected ==
    /\ g_mqtt_ctx.initialized
    /\ g_mqtt_ctx' = [g_mqtt_ctx EXCEPT !.connected = TRUE,
                                        !.reconnect_delay_ms = MQTT_BACKOFF_INIT_MS]
    /\ mqtt_last_event' = "CONNECTED"
    /\ mqtt_prev_delay' = g_mqtt_ctx.reconnect_delay_ms
    /\ g_system_events' = g_system_events \cup {"EVENT_MQTT_CONNECTED"}
    /\ g_system_status' = system_status_update_state(g_system_status, "MQTT_CONNECTED")
    /\ UNCHANGED <<mqtt_command_queue, g_command_queue, mqtt_rx_pc, rx_ghosts>>

\* if (reconnect_delay_ms < 60000) reconnect_delay_ms *= 2;
MqttNextDelay(delay) == IF delay < MQTT_BACKOFF_LIMIT_MS THEN delay * 2 ELSE delay

\* case MQTT_EVENT_DISCONNECTED
HandleMqttDisconnected ==
    /\ g_mqtt_ctx.initialized
    /\ g_mqtt_ctx.reconnect_count < MaxMqttDisconnects
    /\ g_mqtt_ctx' = [g_mqtt_ctx EXCEPT
                        !.connected = FALSE,
                        !.reconnect_count = g_mqtt_ctx.reconnect_count + 1,
                        !.reconnect_delay_ms = MqttNextDelay(g_mqtt_ctx.reconnect_delay_ms)]
    /\ mqtt_last_event' = "DISCONNECTED"
    /\ mqtt_prev_delay' = g_mqtt_ctx.reconnect_delay_ms
    /\ UNCHANGED <<mqtt_command_queue, g_system_events, g_system_status,
                   g_command_queue, mqtt_rx_pc, rx_ghosts>>

\* a send that appends whatever the queue already holds
QueueSend_Unbounded(queue, item, capacity) == Append(queue, item)

\* xQueueSend(queue, item, 0): the queue after the call (unchanged when full)
QueueSend(queue, item, capacity) ==
    IF Len(queue) < capacity THEN Append(queue, item) ELSE queue

\* a receive that hands out the oldest item but leaves it in the queue
QueueAfterReceive_Peek(queue) == queue

\* xQueueReceive(queue, &item, timeout) with an item waiting: the item handed
\* out is the oldest one, and the queue afterwards is the rest
QueueFront(queue) == Head(queue)
QueueAfterReceive(queue) == Tail(queue)

\* a parser that does not look at the kind of the "value" item
mqtt_parse_and_queue_command_AnyValue(queue, payload) ==
    IF payload.json /\ payload.type_is_string
    THEN QueueSend(queue, [type |-> payload.type, value |-> payload.value],
                   MQTT_QUEUE_LEN)
    ELSE queue

\* mqtt_parse_and_queue_command(data, data_len): the command queue afterwards
mqtt_parse_and_queue_command(queue, payload) ==
    IF ~payload.json THEN queue
    ELSE IF payload.type_is_string /\ payload.value_is_number
         THEN QueueSend(queue, [type |-> payload.type, value |-> payload.value],
                        MQTT_QUEUE_LEN)
         ELSE queue

\* case MQTT_EVENT_DATA with data_len > 0 (and the copy buffer allocated)
MqttEventData(payload) ==
    /\ g_mqtt_ctx.initialized
    /\ mqtt_command_queue' = mqtt_parse_and_queue_command(mqtt_command_queue, payload)
    /\ g_mqtt_ctx' = [g_mqtt_ctx EXCEPT !.messages_received = g_mqtt_ctx.messages_received + 1]
    /\ mqtt_last_event' = "DATA"
    /\ mqtt_prev_delay' = g_mqtt_ctx.reconnect_delay_ms
    /\ UNCHANGED <<g_system_events, g_system_status, g_command_queue, mqtt_rx_pc,
                   rx_ghosts>>

\* a readiness test that only asks whether the manager was initialized
PublishReady_InitOnly(ctx) == ctx.initialized

\* the negation of: if (!g_mqtt_ctx.initialized || !g_mqtt_ctx.connected)
PublishReady(ctx) == ctx.initialized /\ ctx.connected

\* if (qos < 0 || qos > 2) qos = 1;
PublishQos(qos) == IF qos < 0 \/ qos > 2 THEN 1 ELSE qos

\* app_mqtt_publish(topic, data, data_len, qos, retain): the context
\* afterwards, the return value and the esp_mqtt_client_publish calls made.
\* args_valid: topic and data non-NULL and data_len # 0; msg_id_ok: the
\* client returned a message id >= 0.
app_mqtt_publish(ctx, args_valid, qos, msg_id_ok) ==
    IF ~args_valid
    THEN [ctx |-> ctx, ret |-> "APP_ERR_INVALID_PARAM", client_calls |-> <<>>]
    ELSE IF ~PublishReady(ctx)
    THEN [ctx |-> [ctx EXCEPT !.publish_failures = ctx.publish_failures + 1],
          ret |-> "APP_ERR_MQTT_PUBLISH", client_calls |-> <<>>]
    ELSE IF ~msg_id_ok
    THEN [ctx |-> [ctx EXCEPT !.publish_failures = ctx.publish_failures + 1],
          ret |-> "APP_ERR_MQTT_PUBLISH", client_calls |-> <<PublishQos(qos)>>]
    ELSE [ctx |-> [ctx EXCEPT !.messages_published = ctx.messages_published + 1],
          ret |-> "APP_OK", client_calls |-> <<PublishQos(qos)>>]

\* the qos arguments callers pass
QosArgs == {-1, 0, 1, 2, 3}

\* no app_mqtt_publish call made yet
PublishInit ==
    publish_call = [args_valid |-> FALSE, initialized |-> FALSE, connected |-> FALSE,
                    ret |-> "NONE", client_calls |-> <<>>,
                    failures_delta |-> 0, published_delta |-> 0]

\* a worker calls app_mqtt_publish
AppMqttPublish ==
    /\ g_mqtt_ctx.messages_published + g_mqtt_ctx.publish_failures < MaxPublishes
    /\ \E args_valid \in BOOLEAN, qos \in QosArgs, msg_id_ok \in BOOLEAN :
          LET out == app_mqtt_publish(g_mqtt_ctx, args_valid, qos, msg_id_ok)
          IN  /\ g_mqtt_ctx' = out.ctx
              /\ publish_call' =
                    [args_valid |-> args_valid,
                     initialized |-> g_mqtt_ctx.initialized,
                     connected |-> g_mqtt_ctx.connected,
                     ret |-> out.ret,
                     client_calls |-> out.client_calls,
                     failures_delta |-> out.ctx.publish_failures
                                            - g_mqtt_ctx.publish_failures,
                     published_delta |-> out.ctx.messages_published
                                            - g_mqtt_ctx.messages_published]
    /\ UNCHANGED <<mqtt_command_queue, mqtt_last_event, mqtt_prev_delay,
                   g_system_events, g_system_status, g_command_queue, mqtt_rx_pc,
                   rx_ghosts>>

\* app_mqtt_disconnect(): stops the client and clears the connected flag
AppMqttDisconnect ==
    /\ g_mqtt_ctx.initialized
    /\ g_mqtt_ctx' = [g_mqtt_ctx EXCEPT !.connected = FALSE]
    /\ UNCHANGED <<mqtt_command_queue, mqtt_last_event, mqtt_prev_delay,
                   g_system_events, g_system_status, g_command_queue, mqtt_rx_pc,
                   rx_ghosts>>

\* the client delivers a message with any of the payloads
HandleMqttData ==
    /\ g_mqtt_ctx.messages_received < MaxMessages
    /\ \E payload \in Payloads : MqttEventData(payload)

\* the payloads of a burst: the sender numbers its fan commands, the n-th
\* command the queue accepts carries value n; in between it sends payloads
\* of the wrong shape
BurstPayloads ==
    {[json |-> TRUE, type_is_string |-> TRUE, type |-> "fan",
      value_is_number |-> TRUE, value |-> enq_count + 1]} \cup MalformedPayloads

\* the client delivers the next message of a burst
HandleMqttBurst ==
    /\ g_mqtt_ctx.messages_received < MaxBurstMessages
    /\ \E payload \in BurstPayloads :
          /\ MqttEventData(payload)
          /\ burst_payload' = payload
    /\ enq_count' = IF mqtt_command_queue' # mqtt_command_queue
                    THEN enq_count + 1 ELSE enq_count

(***************************************************************************)
(* Task orchestrator: command consumer and actuation consumer              *)
(***************************************************************************)
\* a command consumer that enters its loop without waiting for the signal
RxWaitBroker_NoWait ==
    /\ mqtt_rx_pc = "wait_broker"
    /\ mqtt_rx_pc' = "loop"
    /\ UNCHANGED <<g_mqtt_ctx, mqtt_command_queue, mqtt_last_event, mqtt_prev_delay,
                   g_system_events, g_system_status, g_command_queue, rx_ghosts>>

\* xEventGroupWaitBits(g_system_events, EVENT_MQTT_CONNECTED, ..., portMAX_DELAY)
RxWaitBroker ==
    /\ mqtt_rx_pc = "wait_broker"
    /\ "EVENT_MQTT_CONNECTED" \in g_system_events
    /\ mqtt_rx_pc' = "loop"
    /\ UNCHANGED <<g_mqtt_ctx, mqtt_command_queue, mqtt_last_event, mqtt_prev_delay,
                   g_system_events, g_system_status, g_command_queue, rx_ghosts>>

\* a relay check that lost its upper limit
RelayValueInvalid_NoUpper(value) == value < 0

\* cmd.value < 0 || cmd.value > 1
RelayValueInvalid(value) == value < 0 \/ value > 1

\* cmd.value < 0 || cmd.value > 255
FanValueInvalid(value) == value < 0 \/ value > FAN_VALUE_MAX

\* the results app_output_set_relay / app_output_set_fan_speed can return
\* (APP_ERR_UNKNOWN: module disabled or the hardware call failed)
OutputResults == {"APP_OK", "APP_ERR_UNKNOWN"}

\* a consumer that drives the fan for every type other than "relay"
RxCalls_UnknownAsFan(cmd) ==
    IF cmd.type = "relay" /\ ~RelayValueInvalid(cmd.value)
    THEN <<[worker |-> "mqtt_rx_task", fn |-> "set_relay", arg |-> cmd.value]>>
    ELSE IF cmd.type # "relay" /\ ~FanValueInvalid(cmd.value)
    THEN <<[worker |-> "mqtt_rx_task", fn |-> "set_fan_speed", arg |-> cmd.value]>>
    ELSE <<>>

\* the validation in task_mqtt_receive: the OutputDriver calls it makes for
\* cmd and the code it ends with, given the driver's return value
RxCalls(cmd) ==
    IF cmd.type = "relay" /\ ~RelayValueInvalid(cmd.value)
    THEN <<[worker |-> "mqtt_rx_task", fn |-> "set_relay", arg |-> cmd.value]>>
    ELSE IF cmd.type = "fan" /\ ~FanValueInvalid(cmd.value)
    THEN <<[worker |-> "mqtt_rx_task", fn |-> "set_fan_speed", arg |-> cmd.value]>>
    ELSE <<>>

RxReturnCode(cmd, driver_ret) ==
    IF cmd.type = "relay"
    THEN IF RelayValueInvalid(cmd.value) THEN "APP_ERR_INVALID_VALUE" ELSE driver_ret
    ELSE IF cmd.type = "fan"
    THEN IF FanValueInvalid(cmd.value) THEN "APP_ERR_INVALID_VALUE" ELSE driver_ret
    ELSE "APP_ERR_INVALID_PARAM"

\* app_mqtt_receive_command(cmd.type, &cmd.value, ...): the control message the
\* caller holds afterwards.  strncpy(type, item.type, 31) copies the type and
\* pads with NULs (across cmd.value and beyond); *value is stored after it, so
\* both fields read back as queued for the short type strings drawn here.
app_mqtt_receive_command(item) == [type |-> item.type, value |-> item.value]

\* char type[32] of mqtt_command_t, char type[16] of control_message_t, and
\* the count passed to strncpy in app_mqtt_receive_command
MQTT_COMMAND_TYPE_SIZE == 32
CONTROL_TYPE_SIZE == 16
RECEIVE_COPY_LEN == 31

\* the bytes (counted from 1) that app_mqtt_receive_command writes through
\* its type pointer for a queued command: strncpy(type, cmd.type, 31) writes
\* 31 bytes whatever the length of the string, the string and NULs after it,
\* and type[31] = 0 writes the 32nd
ReceiveTypeWrites(item) ==
    {i \in 1..MQTT_COMMAND_TYPE_SIZE : i <= RECEIVE_COPY_LEN} \cup {RECEIVE_COPY_LEN + 1}

\* one iteration of the while (1) loop of task_mqtt_receive:
\* app_mqtt_receive_command returned APP_OK (a command was queued)
RxReceiveCommand ==
    /\ mqtt_rx_pc = "loop"
    /\ mqtt_command_queue # <<>>
    /\ LET cmd == app_mqtt_receive_command(QueueFront(mqtt_command_queue))
       IN  /\ mqtt_command_queue' = QueueAfterReceive(mqtt_command_queue)
           /\ rx_dequeued' = TRUE
           /\ rx_last_cmd' = cmd
           /\ driver_calls' = RxCalls(cmd)
           /\ \E driver_ret \in OutputResults :
                LET ret == RxReturnCode(cmd, driver_ret)
                IN  /\ g_system_status' =
                            IF ret # "APP_OK"
                            THEN system_status_record_error(g_system_status, ret)
                            ELSE g_system_status
                    /\ rx_error_delta' = g_system_status'.error_count
                                            - g_system_status.error_count
    /\ UNCHANGED <<g_mqtt_ctx, mqtt_last_event, mqtt_prev_delay, g_system_events,
                   g_command_queue, mqtt_rx_pc>>

\* ... or APP_ERR_TIMEOUT after 1000 ms with the queue empty
RxReceiveTimeout ==
    /\ mqtt_rx_pc = "loop"
    /\ mqtt_command_queue = <<>>
    /\ rx_dequeued' = FALSE
    /\ driver_calls' = <<>>
    /\ UNCHANGED <<g_mqtt_ctx, mqtt_command_queue, mqtt_last_event, mqtt_prev_delay,
                   g_system_events, g_system_status, g_command_queue, mqtt_rx_pc,
                   rx_last_cmd, rx_error_delta>>

\* the calls task_output_control makes for a command it received
OutputCalls(cmd) ==
    IF cmd.type = "relay"
    THEN <<[worker |-> "output_task", fn |-> "set_relay", arg |-> cmd.value]>>
    ELSE IF cmd.type = "fan"
    THEN <<[worker |-> "output_task", fn |-> "set_fan_speed", arg |-> cmd.value]>>
    ELSE <<>>

\* one iteration of the while (1) loop of task_output_control:
\* xQueueReceive(g_command_queue, &cmd, 500 ms).  No code of the repository
\* sends on g_command_queue.
OutputControlStep ==
    /\ IF g_command_queue # <<>>
       THEN /\ driver_calls' = OutputCalls(QueueFront(g_command_queue))
            /\ g_command_queue' = QueueAfterReceive(g_command_queue)
       ELSE /\ driver_calls' = <<>>
            /\ UNCHANGED g_command_queue
    /\ rx_dequeued' = FALSE
    /\ UNCHANGED <<g_mqtt_ctx, mqtt_command_queue, mqtt_last_event, mqtt_prev_delay,
                   g_system_events, g_system_status, mqtt_rx_pc, rx_last_cmd,
                   rx_error_delta>>

(***************************************************************************)
(* Task orchestrator: sampler and sensor queue                             *)
(***************************************************************************)
\* system_status_increment_sensor_reads()
system_status_increment_sensor_reads(status) ==
    [status EXCEPT !.sensor_read_count = status.sensor_read_count + 1]

\* system_status_increment_sensor_errors()
system_status_increment_sensor_errors(status) ==
    [status EXCEPT !.sensor_error_count = status.sensor_error_count + 1]

\* what sensor_dht_read hands back: a fresh or cached valid reading, a cached
\* reading that is not valid, or one of its errors with the reading invalid
SensorReadOutcomes ==
    {[ret |-> "APP_OK", is_valid |-> TRUE],
     [ret |-> "APP_OK", is_valid |-> FALSE],
     [ret |-> "APP_ERR_TIMEOUT", is_valid |-> FALSE],
     [ret |-> "APP_ERR_SENSOR_READ", is_valid |-> FALSE]}

\* a success test that only looks at the return value
ReadSucceeded_RetOnly(out) == out.ret = "APP_OK"

\* if (ret == APP_OK && reading.is_valid)
ReadSucceeded(out) == out.ret = "APP_OK" /\ out.is_valid

\* sensor_message_t msg = { .data = reading, .sequence = read_sequence++ };
SensorMessage(out, sequence) == [data |-> [is_valid |-> out.is_valid], sequence |-> sequence]

\* one iteration of the while (1) loop of task_sensor_read, sensor_dht_read
\* having returned out
TaskSensorRead(out) ==
    /\ IF ReadSucceeded(out)
       THEN /\ g_system_status' = system_status_increment_sensor_reads(g_system_status)
            /\ read_sequence' = read_sequence + 1
            /\ g_sensor_queue' = QueueSend(g_sensor_queue,
                                           SensorMessage(out, read_sequence),
                                           SENSOR_QUEUE_LEN)
       ELSE /\ g_system_status' = system_status_increment_sensor_errors(g_system_status)
            /\ UNCHANGED <<g_sensor_queue, read_sequence>>
    /\ UNCHANGED broker_rest

\* the messages that iteration passes to xQueueSend
SamplerOffers(out) ==
    IF ReadSucceeded(out) THEN <<SensorMessage(out, read_sequence)>> ELSE <<>>

\* the sampler runs one iteration (observed)
SamplerIteration ==
    /\ sampler_runs < MaxSensorReads
    /\ \E out \in SensorReadOutcomes :
          /\ TaskSensorRead(out)
          /\ sampler_read' = out
          /\ sampler_offered' = SamplerOffers(out)
    /\ sampler_runs' = sampler_runs + 1
    /\ UNCHANGED <<api_toggle, api_result>>

\* the sampler runs one iteration (next to the command path)
SamplerRun ==
    /\ g_system_status.sensor_read_count + g_system_status.sensor_error_count
            < MaxSensorReads
    /\ \E out \in SensorReadOutcomes : TaskSensorRead(out)
    /\ UNCHANGED sampler_ghosts

\* system_task_queue_sensor_data(data): the sensor queue afterwards and the
\* return value (the data are copied as they are; a valid reading is passed)
system_task_queue_sensor_data(queue, data_null) ==
    IF data_null
    THEN [queue |-> queue, ret |-> "APP_ERR_INVALID_PARAM"]
    ELSE [queue |-> QueueSend(queue, [data |-> [is_valid |-> TRUE], sequence |-> 0],
                              SENSOR_QUEUE_LEN),
          ret |-> IF Len(queue) < SENSOR_QUEUE_LEN THEN "APP_OK" ELSE "APP_ERR_UNKNOWN"]

\* another module calls system_task_queue_sensor_data
QueueSensorDataCall ==
    /\ \E data_null \in BOOLEAN :
          LET out == system_task_queue_sensor_data(g_sensor_queue, data_null)
          IN  /\ g_sensor_queue' = out.queue
              /\ api_result' = out.ret
    /\ api_toggle' = ~api_toggle
    /\ UNCHANGED <<read_sequence, sampler_runs, sampler_read, sampler_offered>>

\* the sensor queue is empty and the sampler has not run
SensorInit ==
    /\ g_sensor_queue = <<>>
    /\ read_sequence = 0
    /\ sampler_runs = 0
    /\ sampler_read = [ret |-> "NONE", is_valid |-> FALSE]
    /\ sampler_offered = <<>>
    /\ api_toggle = FALSE
    /\ api_result = "NONE"

(***************************************************************************)
(* Application: app_main and its callbacks                                 *)
(***************************************************************************)
\* system_state_t, in the order of its enumerators
SystemStates == <<"INIT", "HARDWARE_READY", "WIFI_CONNECTING", "WIFI_CONNECTED",
                  "MQTT_CONNECTING", "MQTT_CONNECTED", "OPERATIONAL", "ERROR">>

\* system_task_signal_wifi_connected(), called by on_wifi_connected
system_task_signal_wifi_connected ==
    /\ g_system_events' = g_system_events \cup {"EVENT_WIFI_CONNECTED"}
    /\ g_system_status' = system_status_update_state(g_system_status, "WIFI_CONNECTED")
    /\ UNCHANGED broker_rest_events

\* system_task_signal_ready()
system_task_signal_ready ==
    /\ g_system_events' = g_system_events \cup {"EVENT_SYSTEM_READY"}
    /\ g_system_status' = system_status_update_state(g_system_status, "OPERATIONAL")
    /\ UNCHANGED broker_rest_events

\* phase 4, wifi_connection_init: app_wifi_init with max_retries = 5 and no
\* on_connect_failed callback; skipped without credentials, and a failure is
\* only logged
MainWifiInit ==
    /\ main_pc = "wifi_init"
    /\ \/ app_wifi_init(MAIN_WIFI_MAX_RETRIES, FALSE)
       \/ UNCHANGED wifi_vars
    /\ main_pc' = "mqtt_init"
    /\ UNCHANGED main_last_state

\* phase 5, mqtt_connection_init: app_mqtt_init; a failure is only logged
MainMqttInit ==
    /\ main_pc = "mqtt_init"
    /\ \/ AppMqttInit
       \/ UNCHANGED broker_vars
    /\ main_pc' = "loop"
    /\ UNCHANGED main_last_state

\* IP_EVENT_STA_GOT_IP with config.on_connected = on_wifi_connected
GotIpInApp == HandleGotIp /\ system_task_signal_wifi_connected

\* MQTT_EVENT_CONNECTED in the application: the client reaches the broker
\* only while the station holds an address
MqttConnectedInApp == ip_assigned /\ HandleMqttConnected

\* one iteration of app_main's while (1) loop
MainSupervisorStep ==
    /\ main_pc = "loop"
    /\ IF g_system_status.state # main_last_state
       THEN /\ main_last_state' = g_system_status.state
            /\ IF g_system_status.state = "MQTT_CONNECTED"
               THEN system_task_signal_ready
               ELSE UNCHANGED broker_vars
       ELSE UNCHANGED <<main_last_state, broker_vars>>
    /\ UNCHANGED main_pc

\* app_main is about to start the network; static last_state = INIT
MainInit ==
    /\ main_pc = "wifi_init"
    /\ main_last_state = "INIT"

\* system_task_init(): created tells whether the event group and the two
\* queues could be created
system_task_init(status, created) ==
    IF ~created THEN [status |-> status, ret |-> "APP_ERR_NO_MEMORY"]
    ELSE [status |-> ZeroStatus, ret |-> "APP_OK"]

\* a start that leaves the state alone
system_task_start_all_NoUpdate(status, config_null, tasks_created) ==
    IF config_null THEN [status |-> status, ret |-> "APP_ERR_INVALID_PARAM"]
    ELSE [status |-> status,
          ret |-> IF tasks_created THEN "APP_OK" ELSE "APP_ERR_NO_MEMORY"]

\* system_task_start_all(config): tasks_created tells whether all four
\* xTaskCreate calls succeeded
system_task_start_all(status, config_null, tasks_created) ==
    IF config_null THEN [status |-> status, ret |-> "APP_ERR_INVALID_PARAM"]
    ELSE [status |-> system_status_update_state(status, "HARDWARE_READY"),
          ret |-> IF tasks_created THEN "APP_OK" ELSE "APP_ERR_NO_MEMORY"]

\* phase 3, task_system_init: system_task_init; app_main returns when it fails
SystemTaskInit ==
    /\ main_pc = "task_init"
    /\ \E created \in BOOLEAN :
          LET r == system_task_init(g_system_status, created)
          IN  /\ g_system_status' = r.status
              /\ main_pc' = IF r.ret = "APP_OK" THEN "start_all" ELSE "halted"
    /\ UNCHANGED <<broker_rest, main_last_state>>

\* phase 3, task_system_init: system_task_start_all(config); app_main goes
\* on to phase 4 when it returns APP_OK and returns otherwise
SystemTaskStartAll ==
    /\ main_pc = "start_all"
    /\ \E config_null \in BOOLEAN, tasks_created \in BOOLEAN :
          LET r == system_task_start_all(g_system_status, config_null, tasks_created)
          IN  /\ g_system_status' = r.status
              /\ main_pc' = IF r.ret = "APP_OK" THEN "wifi_init"
                            ELSE IF config_null THEN "halted"
                            ELSE "start_failed"
    /\ UNCHANGED <<broker_rest, main_last_state>>

\* app_main at phase 3: nothing of the task system exists yet
BootInit == main_pc = "task_init" /\ main_last_state = "INIT"

(***************************************************************************)
(* Task orchestrator: SystemStatus at statement level.  Every status       *)
(* helper brackets its statements with portENTER_CRITICAL and              *)
(* portEXIT_CRITICAL(&g_status_mutex); between any two statements of a     *)
(* task another task may run (preemption, or the second core).             *)
(***************************************************************************)
\* the tasks that call the status helpers: the four workers' callers, the
\* event-loop task (on_wifi_connected), the MQTT client task
\* (on_mqtt_connected) and app_main
StatusTasks == {"sensor_task", "mqtt_rx_task", "monitor_task", "event_loop",
                "mqtt_client", "main"}

Stmt(op, arg) == [op |-> op, arg |-> arg]

\* the statements inside the critical section of system_status_update_state
UpdateStateBody(new_state) == <<Stmt("set_state", new_state), Stmt("set_uptime", "")>>

\* ... of system_status_record_error: last_error = code; error_count++
RecordErrorBody(error_code) ==
    <<Stmt("set_last_error", error_code), Stmt("load", "error_count"),
      Stmt("store", "error_count")>>

\* ... of system_status_increment_sensor_reads: sensor_read_count++
IncrementSensorReadsBody ==
    <<Stmt("load", "sensor_read_count"), Stmt("store", "sensor_read_count")>>

\* ... of system_status_increment_sensor_errors: sensor_error_count++
IncrementSensorErrorsBody ==
    <<Stmt("load", "sensor_error_count"), Stmt("store", "sensor_error_count")>>

\* ... of system_task_get_status: memcpy(status, &g_system_status, ...)
GetStatusBody == <<Stmt("copy", "")>>

\* the statements between portENTER_CRITICAL and portEXIT_CRITICAL in
\* task_system_monitor: five APP_LOG_INFO calls, four of them formatting
\* fields of the record
MonitorLogBody ==
    <<Stmt("log", "banner"), Stmt("log", "state"), Stmt("log", "uptime_ms"),
      Stmt("log", "sensor_counts"), Stmt("log", "reconnect_counts")>>

\* the statements that only read or write the status record
RecordOps == {"set_state", "set_uptime", "set_last_error", "load", "store", "copy"}

\* g_system_status with its uptime_ms field
StatusRecord ==
    [state |-> g_system_status.state, uptime_ms |-> status_uptime_ms,
     last_error |-> g_system_status.last_error,
     error_count |-> g_system_status.error_count,
     sensor_read_count |-> g_system_status.sensor_read_count,
     sensor_error_count |-> g_system_status.sensor_error_count]

StatusIdle == [holding |-> FALSE, stmts |-> <<>>]

\* the record after system_task_init and system_task_start_all; no task is
\* inside a status call
StatusInit ==
    /\ g_status_mutex = "free"
    /\ status_pc = [t \in StatusTasks |-> StatusIdle]
    /\ status_tmp = [t \in StatusTasks |-> 0]
    /\ status_uptime_ms = 0
    /\ status_now = 0
    /\ status_snapshot = <<>>
    /\ status_committed = {StatusRecord}
    /\ status_calls = 0

StatusEnter_NoLock(t, body) ==
    /\ status_pc[t] = StatusIdle
    /\ g_status_mutex' = t
    /\ status_pc' = [status_pc EXCEPT ![t] = [holding |-> TRUE, stmts |-> body]]
    /\ UNCHANGED <<g_system_status, status_tmp, status_uptime_ms, status_snapshot,
                   status_committed>>

\* task t calls a status helper and passes portENTER_CRITICAL(&g_status_mutex):
\* it gets in only while no other task is inside
StatusEnter(t, body) ==
    /\ g_status_mutex = "free"
    /\ status_pc[t] = StatusIdle
    /\ g_status_mutex' = t
    /\ status_pc' = [status_pc EXCEPT ![t] = [holding |-> TRUE, stmts |-> body]]
    /\ UNCHANGED <<g_system_status, status_tmp, status_uptime_ms, status_snapshot,
                   status_committed>>

\* a call that changes the record; the clock has advanced since the last one
StatusMutation(t, body) ==
    /\ status_calls < MaxStatusCalls
    /\ StatusEnter(t, body)
    /\ status_calls' = status_calls + 1
    /\ status_now' = status_now + 1

\* task_sensor_read counts its read: a success or an error
SamplerCountsRead ==
    \E ok \in BOOLEAN :
        StatusMutation("sensor_task",
                       IF ok THEN IncrementSensorReadsBody ELSE IncrementSensorErrorsBody)

\* task_mqtt_receive records the error code app_mqtt_receive_command returned
CommandRecordsError ==
    \E code \in {"APP_ERR_INVALID_VALUE", "APP_ERR_INVALID_PARAM", "APP_ERR_UNKNOWN"} :
        StatusMutation("mqtt_rx_task", RecordErrorBody(code))

\* task_system_monitor found the sensor unhealthy
MonitorRecordsError == StatusMutation("monitor_task", RecordErrorBody("APP_ERR_SENSOR_READ"))

\* task_system_monitor prints the status every period, inside the lock
MonitorLogsStatus ==
    /\ StatusEnter("monitor_task", MonitorLogBody)
    /\ UNCHANGED <<status_calls, status_now>>

\* on_wifi_connected -> system_task_signal_wifi_connected, on the event loop
WifiSignalsConnected == StatusMutation("event_loop", UpdateStateBody("WIFI_CONNECTED"))

\* on_mqtt_connected -> system_task_signal_mqtt_connected, on the client task
MqttSignalsConnected == StatusMutation("mqtt_client", UpdateStateBody("MQTT_CONNECTED"))

MainGetStatus_NoLock ==
    /\ status_pc["main"] = StatusIdle
    /\ status_snapshot' = <<StatusRecord>>
    /\ UNCHANGED <<g_system_status, g_status_mutex, status_pc, status_tmp,
                   status_uptime_ms, status_now, status_committed, status_calls>>

\* app_main's loop calls system_task_get_status
MainGetStatus ==
    /\ StatusEnter("main", GetStatusBody)
    /\ UNCHANGED <<status_now, status_calls>>

\* ... and system_task_signal_ready when the copy says MqttConnected
MainSignalReady ==
    /\ status_snapshot # <<>>
    /\ status_snapshot[1].state = "MQTT_CONNECTED"
    /\ StatusMutation("main", UpdateStateBody("OPERATIONAL"))

\* task t executes the next statement of its critical section
StatusStatement(t) ==
    /\ status_pc[t].stmts # <<>>
    /\ LET st == Head(status_pc[t].stmts)
       IN  /\ g_system_status' =
                 CASE st.op = "set_state" ->
                        system_status_update_state(g_system_status, st.arg)
                   [] st.op = "set_last_error" ->
                        [g_system_status EXCEPT !.last_error = st.arg]
                   [] st.op = "store" ->
                        [g_system_status EXCEPT ![st.arg] = status_tmp[t] + 1]
                   [] OTHER -> g_system_status
           /\ status_uptime_ms' =
                 IF st.op = "set_uptime" THEN status_now ELSE status_uptime_ms
           /\ status_tmp' =
                 IF st.op = "load"
                 THEN [status_tmp EXCEPT ![t] = g_system_status[st.arg]]
                 ELSE status_tmp
           /\ status_snapshot' =
                 IF st.op = "copy" THEN <<StatusRecord>> ELSE status_snapshot
    /\ status_pc' = [status_pc EXCEPT ![t].stmts = Tail(@)]
    /\ UNCHANGED <<g_status_mutex, status_now, status_committed, status_calls>>

\* task t passes portEXIT_CRITICAL(&g_status_mutex): its call is complete
StatusExit(t) ==
    /\ status_pc[t].holding
    /\ status_pc[t].stmts = <<>>
    /\ g_status_mutex' = "free"
    /\ status_pc' = [status_pc EXCEPT ![t] = StatusIdle]
    /\ status_committed' = status_committed \cup {StatusRecord}
    /\ UNCHANGED <<g_system_status, status_tmp, status_uptime_ms, status_now,
                   status_snapshot, status_calls>>

\* everything but the status record and the statement-level variables
not_status == <<wifi_vars, broker_rest, burst_vars, publish_vars, sensor_vars, main_vars,
                dht_vars, output_vars, config_vars, link_vars>>

(***************************************************************************)
(* Sensor driver (components/sensor/sensor_dht.c).  Times are milliseconds *)
(* since boot kept as <<high, low>> with a 16-bit low half: the timer is   *)
(* 64 bits wide, current_ms and last_read_ms are uint32_t.                 *)
(***************************************************************************)
\* t + d, full width
TimeAdd(t, d) == <<t[1] + d[1] + (t[2] + d[2]) \div HALF_WORD, (t[2] + d[2]) % HALF_WORD>>

\* a - b for a >= b, full width
TimeSub(a, b) ==
    IF a[2] >= b[2] THEN <<a[1] - b[1], a[2] - b[2]>>
                    ELSE <<a[1] - b[1] - 1, a[2] + HALF_WORD - b[2]>>

\* uint32_t current_ms = esp_timer_get_time() / 1000: the low 32 bits
ToUint32(t) == <<t[1] % HALF_WORD, t[2]>>

\* a - b in uint32_t arithmetic
U32Sub(a, b) ==
    IF a[2] >= b[2]
    THEN <<(a[1] + HALF_WORD - b[1]) % HALF_WORD, a[2] - b[2]>>
    ELSE <<(a[1] + HALF_WORD - b[1] - 1) % HALF_WORD, a[2] + HALF_WORD - b[2]>>

\* v < k for a k below 2^16
TimeLt(v, k) == v[1] = 0 /\ v[2] < k

\* sensor_data_t; temperature and humidity in tenths
ZeroReading ==
    [temperature |-> 0, humidity |-> 0, timestamp_ms |-> <<0, 0>>,
     is_valid |-> FALSE, last_error |-> "APP_OK"]

NoFrame == <<0, 0, 0, 0, 0>>
NoDhtCall ==
    [fn |-> "NONE", ret |-> "NONE", out |-> ZeroReading, ran_protocol |-> FALSE,
     decoded |-> FALSE, frame |-> NoFrame, event |-> "none"]

\* static dht_context_t g_dht_context = {0}; the timer starts at boot
DhtInit ==
    /\ g_dht_context = [initialized |-> FALSE, last_read_ms |-> <<0, 0>>,
                        last_reading |-> ZeroReading]
    /\ dht_now = <<0, 0>>
    /\ dht_ticks = 0
    /\ dht_toggle = FALSE
    /\ dht_call = NoDhtCall
    /\ dht_success = <<>>

\* sensor_dht_init(pin): the context afterwards and the return value
sensor_dht_init(ctx, pin_valid, gpio_ok) ==
    IF ~pin_valid THEN [ctx |-> ctx, ret |-> "APP_ERR_INVALID_PARAM"]
    ELSE IF ctx.initialized THEN [ctx |-> ctx, ret |-> "APP_OK"]
    ELSE IF ~gpio_ok THEN [ctx |-> ctx, ret |-> "APP_ERR_UNKNOWN"]
    ELSE [ctx |-> [ctx EXCEPT !.last_reading.is_valid = FALSE,
                              !.last_reading.last_error = "APP_OK",
                              !.last_reading.temperature = 0,
                              !.last_reading.humidity = 0,
                              !.initialized = TRUE,
                              !.last_read_ms = <<0, 0>>],
          ret |-> "APP_OK"]

\* a caller (hardware_init) calls sensor_dht_init
SensorDhtInit ==
    /\ \E pin_valid \in BOOLEAN, gpio_ok \in BOOLEAN :
          LET r == sensor_dht_init(g_dht_context, pin_valid, gpio_ok)
          IN  /\ g_dht_context' = r.ctx
              /\ dht_call' = [NoDhtCall EXCEPT !.fn = "init", !.ret = r.ret]
    /\ dht_toggle' = ~dht_toggle
    /\ UNCHANGED <<dht_now, dht_ticks, dht_success>>

dht_validate_data_NoWrap(data) == data[1] + data[2] + data[3] + data[4] = data[5]

\* dht_validate_data: (uint8_t)(data[0] + data[1] + data[2] + data[3]) == data[4]
dht_validate_data(data) ==
    (data[1] + data[2] + data[3] + data[4]) % UINT8_RANGE = data[5]

\* (float)integral + (float)fraction * 0.1f, in tenths
DhtValue(integral, fraction) == integral * 10 + fraction

\* what the line does during a wire transaction: the device never answers
\* the start pulse, a bit phase never changes level, or all 40 bits arrive
WireTimeouts == {"no_response", "bit_timeout"}

\* dht_wait_for_level: APP_ERR_TIMEOUT when the level is not seen in time
dht_wait_for_level(level_seen) ==
    IF level_seen THEN "APP_OK" ELSE "APP_ERR_TIMEOUT"

\* what dht_read_raw_data returns: APP_OK with the 40 bits it sampled, or
\* APP_ERR_SENSOR_READ when a dht_wait_for_level call did not return APP_OK
WireFailure(event) ==
    [ret |-> IF dht_wait_for_level(event \notin WireTimeouts) # "APP_OK"
             THEN "APP_ERR_SENSOR_READ" ELSE "APP_OK",
     frame |-> NoFrame, event |-> event]
WireFrame(frame) == [ret |-> "APP_OK", frame |-> frame, event |-> "frame"]

\* the interval test of sensor_dht_read: serve the call from the cache
DhtThrottled(ctx, now) ==
    TimeLt(U32Sub(ToUint32(now), ctx.last_read_ms), DHT_MIN_INTERVAL_MS)

\* sensor_dht_read(sensor_data) called at time now with *sensor_data = out,
\* the wire transaction (if it runs) yielding wire after duration ms: the
\* context afterwards, the return value and the caller's reading
sensor_dht_read(ctx, now, out_null, out, wire, duration) ==
    IF out_null
    THEN [ctx |-> ctx, ret |-> "APP_ERR_INVALID_PARAM", out |-> out,
          ran_protocol |-> FALSE, decoded |-> FALSE]
    ELSE IF ~ctx.initialized
    THEN [ctx |-> ctx, ret |-> "APP_ERR_UNKNOWN", out |-> out,
          ran_protocol |-> FALSE, decoded |-> FALSE]
    ELSE IF DhtThrottled(ctx, now)
    THEN [ctx |-> ctx, ret |-> "APP_OK", out |-> ctx.last_reading,
          ran_protocol |-> FALSE, decoded |-> FALSE]
    ELSE IF wire.ret # "APP_OK"
    THEN [ctx |-> [ctx EXCEPT !.last_reading.last_error = wire.ret],
          ret |-> wire.ret,
          out |-> [out EXCEPT !.is_valid = FALSE, !.last_error = wire.ret],
          ran_protocol |-> TRUE, decoded |-> FALSE]
    ELSE IF ~dht_validate_data(wire.frame)
    THEN [ctx |-> [ctx EXCEPT !.last_reading.last_error = "APP_ERR_SENSOR_READ"],
          ret |-> "APP_ERR_SENSOR_READ",
          out |-> [out EXCEPT !.is_valid = FALSE, !.last_error = "APP_ERR_SENSOR_READ"],
          ran_protocol |-> TRUE, decoded |-> TRUE]
    ELSE LET reading == [humidity |-> DhtValue(wire.frame[1], wire.frame[2]),
                         temperature |-> DhtValue(wire.frame[3], wire.frame[4]),
                         timestamp_ms |-> TimeAdd(now, duration),
                         is_valid |-> TRUE,
                         last_error |-> "APP_OK"]
         IN  [ctx |-> [ctx EXCEPT !.last_read_ms = ToUint32(now),
                                  !.last_reading = reading],
              ret |-> "APP_OK", out |-> reading,
              ran_protocol |-> TRUE, decoded |-> TRUE]

\* a caller (hardware_init, task_sensor_read) calls sensor_dht_read with a
\* zeroed reading; a wire transaction takes duration ms
SensorDhtRead(out_null, wire, duration) ==
    LET r == sensor_dht_read(g_dht_context, dht_now, out_null, ZeroReading, wire, duration)
    IN  /\ r.ran_protocol => dht_ticks < MaxClockSteps
        /\ g_dht_context' = r.ctx
        /\ dht_call' = [fn |-> "read", ret |-> r.ret, out |-> r.out,
                        ran_protocol |-> r.ran_protocol, decoded |-> r.decoded,
                        frame |-> IF r.decoded THEN wire.frame ELSE NoFrame,
                        event |-> IF r.ran_protocol THEN wire.event ELSE "none"]
        /\ dht_now' = IF r.ran_protocol THEN TimeAdd(dht_now, duration) ELSE dht_now
        /\ dht_ticks' = IF r.ran_protocol THEN dht_ticks + 1 ELSE dht_ticks
        /\ dht_success' = IF r.ran_protocol /\ r.ret = "APP_OK"
                          THEN <<[at |-> dht_now, reading |-> r.out]>>
                          ELSE dht_success
        /\ dht_toggle' = ~dht_toggle

\* a wire transaction: the 18 ms start pulse, then about 5 ms for the
\* response and the 40 bits
ProtocolDurations == {U32(DHT_START_LOW_MS + 5)}

\* frames the sensor sends: plain, with a sum above 255, and corrupted
SampleFrames == {<<55, 0, 24, 3, 82>>, <<200, 5, 50, 9, 8>>, <<55, 0, 24, 3, 83>>}

SensorDhtReadCall ==
    \E out_null \in BOOLEAN, wire \in {WireFailure(e) : e \in WireTimeouts} \cup {WireFrame(f) : f \in SampleFrames},
       duration \in ProtocolDurations :
        SensorDhtRead(out_null, wire, duration)

\* the bytes a frame is drawn from when every frame is tried
FrameBytes == {0, 1, 128, 255}

\* a read while the cache is as sensor_dht_init left it (no wire transaction
\* has run yet), any frame on the wire
SensorDhtReadFrame ==
    /\ g_dht_context.last_reading = ZeroReading
    /\ \E frame \in [1..5 -> FrameBytes], duration \in ProtocolDurations :
          SensorDhtRead(FALSE, WireFrame(frame), duration)

\* sensor_dht_get_last_reading(sensor_data): return value and caller's reading
sensor_dht_get_last_reading(ctx, out_null, out) ==
    IF out_null THEN [ret |-> "APP_ERR_INVALID_PARAM", out |-> out]
    ELSE IF ~ctx.initialized THEN [ret |-> "APP_ERR_UNKNOWN", out |-> out]
    ELSE [ret |-> "APP_OK", out |-> ctx.last_reading]

SensorDhtGetLastReading ==
    /\ \E out_null \in BOOLEAN :
          LET r == sensor_dht_get_last_reading(g_dht_context, out_null, ZeroReading)
          IN  dht_call' = [NoDhtCall EXCEPT !.fn = "get_last_reading", !.ret = r.ret,
                                           !.out = r.out]
    /\ dht_toggle' = ~dht_toggle
    /\ UNCHANGED <<g_dht_context, dht_now, dht_ticks, dht_success>>

\* sensor_dht_is_healthy() evaluated at time now
sensor_dht_is_healthy(ctx, now) ==
    /\ ctx.initialized
    /\ ctx.last_reading.is_valid
    /\ TimeLt(U32Sub(ToUint32(now), ctx.last_read_ms), DHT_HEALTH_WINDOW_MS)

\* the lapses of time between calls: a millisecond, a transaction's end to
\* just below the read interval, the read interval to the health window,
\* and the uint32_t range less the read interval
ClockSteps ==
    {U32(1),
     U32(DHT_MIN_INTERVAL_MS - (DHT_START_LOW_MS + 5) - 1),
     U32(DHT_HEALTH_WINDOW_MS - DHT_MIN_INTERVAL_MS),
     <<HALF_WORD - 1, HALF_WORD - DHT_MIN_INTERVAL_MS>>}

\* time passes
ClockAdvance ==
    /\ dht_ticks < MaxClockSteps
    /\ \E d \in ClockSteps : dht_now' = TimeAdd(dht_now, d)
    /\ dht_ticks' = dht_ticks + 1
    /\ UNCHANGED <<g_dht_context, dht_toggle, dht_call, dht_success>>

\* everything but the sensor driver's variables
not_dht == <<wifi_vars, broker_vars, burst_vars, publish_vars, sensor_vars, main_vars,
             status_vars, output_vars, config_vars, link_vars>>

(***************************************************************************)
(* Output module (app_output.c): relay, fan PWM and the fan ramp task      *)
(***************************************************************************)
RELAY_OFF == 0
RELAY_ON == 1
FAN_SPEED_MIN == 0
FAN_SPEED_MAX == 255
FAN_SPEED_OFF == 0
RAMP_MIN_MS == 100
RAMP_MAX_MS == 60000
RAMP_STEP_MS == 50

\* ramp tasks that fit in memory at once, and 50 ms laps of the clock
MaxRampTasks == 1
MaxOutputTicks == 3

RampSlots == 1..MaxRampTasks

\* static output_context_t g_output_ctx = {0}
OutputCtxZero ==
    [relay_state |-> RELAY_OFF, fan_speed |-> 0, is_enabled |-> FALSE,
     initialized |-> FALSE, ramp_active |-> FALSE, ramp_target_speed |-> 0,
     ramp_duration_ms |-> 0, ramp_start_ms |-> 0]

\* no ramp task in the slot
RampIdle == [pc |-> "idle", elapsed_ms |-> 0, new_speed |-> 0, wake_ms |-> 0]

OutputInit ==
    /\ g_output_ctx = OutputCtxZero
    /\ gpio_relay_level = RELAY_OFF
    /\ ledc_channel = [set |-> 0, duty |-> 0]
    /\ ramp_tasks = [t \in RampSlots |-> RampIdle]
    /\ output_now = 0
    /\ output_call = [fn |-> "NONE", ret |-> "NONE"]
    /\ output_off_by = "none"

\* the context and the two peripherals as one value the API functions map
OutputDev == [ctx |-> g_output_ctx, gpio |-> gpio_relay_level, ledc |-> ledc_channel]

\* app_output_init(relay_pin, fan_pin): output_init_relay drives the relay
\* pin to OFF, output_init_ledc configures the channel with duty 0
app_output_init(dev, pins_valid) ==
    IF ~pins_valid THEN [dev |-> dev, ret |-> "APP_ERR_INVALID_PARAM"]
    ELSE IF dev.ctx.initialized THEN [dev |-> dev, ret |-> "APP_OK"]
    ELSE [dev |-> [ctx |-> [dev.ctx EXCEPT !.relay_state = RELAY_OFF,
                                           !.fan_speed = 0,
                                           !.is_enabled = TRUE,
                                           !.initialized = TRUE,
                                           !.ramp_active = FALSE],
                   gpio |-> RELAY_OFF,
                   ledc |-> [set |-> 0, duty |-> 0]],
          ret |-> "APP_OK"]

\* app_output_set_relay(state)
app_output_set_relay(dev, state) ==
    IF ~dev.ctx.initialized THEN [dev |-> dev, ret |-> "APP_ERR_UNKNOWN"]
    ELSE IF ~dev.ctx.is_enabled THEN [dev |-> dev, ret |-> "APP_ERR_UNKNOWN"]
    ELSE IF state # RELAY_OFF /\ state # RELAY_ON
    THEN [dev |-> dev, ret |-> "APP_ERR_INVALID_VALUE"]
    ELSE [dev |-> [dev EXCEPT !.gpio = state, !.ctx.relay_state = state],
          ret |-> "APP_OK"]

\* app_output_set_fan_speed(speed): clamp, cancel the ramp, set and update
\* the duty
app_output_set_fan_speed(dev, speed) ==
    IF ~dev.ctx.initialized THEN [dev |-> dev, ret |-> "APP_ERR_UNKNOWN"]
    ELSE IF ~dev.ctx.is_enabled THEN [dev |-> dev, ret |-> "APP_ERR_UNKNOWN"]
    ELSE LET clamped == IF speed < FAN_SPEED_MIN THEN FAN_SPEED_MIN
                        ELSE IF speed > FAN_SPEED_MAX THEN FAN_SPEED_MAX
                        ELSE speed
         IN  [dev |-> [dev EXCEPT !.ctx.ramp_active = FALSE,
                                  !.ledc = [set |-> clamped, duty |-> clamped],
                                  !.ctx.fan_speed = clamped],
              ret |-> "APP_OK"]

\* app_output_ramp_fan_speed(target_speed, duration_ms) at time now;
\* task_created is the outcome of xTaskCreate. spawn tells whether a ramp
\* task was started
app_output_ramp_fan_speed(dev, target_speed, duration_ms, now, task_created) ==
    IF ~dev.ctx.initialized \/ ~dev.ctx.is_enabled
    THEN [dev |-> dev, ret |-> "APP_ERR_UNKNOWN", spawn |-> FALSE]
    ELSE IF duration_ms = 0
    THEN LET r == app_output_set_fan_speed(dev, target_speed)
         IN  [dev |-> r.dev, ret |-> r.ret, spawn |-> FALSE]
    ELSE IF duration_ms < RAMP_MIN_MS \/ duration_ms > RAMP_MAX_MS
    THEN [dev |-> dev, ret |-> "APP_ERR_INVALID_VALUE", spawn |-> FALSE]
    ELSE [dev |-> [dev EXCEPT !.ctx.ramp_active = task_created,
                              !.ctx.ramp_target_speed = target_speed,
                              !.ctx.ramp_duration_ms = duration_ms,
                              !.ctx.ramp_start_ms = now],
          ret |-> IF task_created THEN "APP_OK" ELSE "APP_ERR_NO_MEMORY",
          spawn |-> task_created]

\* app_output_set_enabled(enabled): the flag is written first, then the two
\* setters are called and their results dropped
app_output_set_enabled(dev, enabled) ==
    LET flagged == [dev EXCEPT !.ctx.is_enabled = enabled]
    IN  IF ~enabled
        THEN [dev |-> app_output_set_fan_speed(
                          app_output_set_relay(flagged, RELAY_OFF).dev,
                          FAN_SPEED_OFF).dev,
              ret |-> "APP_OK"]
        ELSE [dev |-> flagged, ret |-> "APP_OK"]

\* app_output_emergency_stop()
app_output_emergency_stop(dev) ==
    [dev |-> [ctx |-> [dev.ctx EXCEPT !.relay_state = RELAY_OFF,
                                      !.fan_speed = 0,
                                      !.is_enabled = FALSE,
                                      !.ramp_active = FALSE],
              gpio |-> RELAY_OFF,
              ledc |-> [set |-> 0, duty |-> 0]],
     ret |-> "APP_OK"]

\* a call of the output API returned r
OutputReturn(fn, r) ==
    /\ g_output_ctx' = r.dev.ctx
    /\ gpio_relay_level' = r.dev.gpio
    /\ ledc_channel' = r.dev.ledc
    /\ output_call' = [fn |-> fn, ret |-> r.ret]

AppOutputInit ==
    \E pins_valid \in BOOLEAN :
        LET r == app_output_init(OutputDev, pins_valid)
        IN  /\ OutputReturn("init", r)
            /\ output_off_by' = IF r.dev.ctx.is_enabled THEN "none" ELSE output_off_by
            /\ UNCHANGED <<ramp_tasks, output_now>>

\* relay states a caller passes
RelayStates == {RELAY_OFF, RELAY_ON, RELAY_ON + 1}

AppOutputSetRelay ==
    \E state \in RelayStates :
        /\ OutputReturn("set_relay", app_output_set_relay(OutputDev, state))
        /\ UNCHANGED <<ramp_tasks, output_now, output_off_by>>

\* fan speeds a caller passes
FanSpeeds == {FAN_SPEED_MIN - 1, FAN_SPEED_OFF, FAN_SPEED_MAX \div 2 + 1, FAN_SPEED_MAX + 45}

AppOutputSetFanSpeed ==
    \E speed \in FanSpeeds :
        /\ OutputReturn("set_fan_speed", app_output_set_fan_speed(OutputDev, speed))
        /\ UNCHANGED <<ramp_tasks, output_now, output_off_by>>

\* ramp targets and durations a caller passes
RampTargets == {FAN_SPEED_OFF, FAN_SPEED_MAX}
RampDurations == {0, RAMP_MIN_MS \div 2, RAMP_MIN_MS}

\* xTaskCreate succeeds only while a task slot is free; the new task starts
\* at the head of task_fan_ramp
AppOutputRampFanSpeed ==
    \E target_speed \in RampTargets, duration_ms \in RampDurations,
       task_created \in BOOLEAN :
        LET r == app_output_ramp_fan_speed(OutputDev, target_speed, duration_ms,
                                           output_now, task_created)
            free == {t \in RampSlots : ramp_tasks[t].pc = "idle"}
        IN  /\ r.spawn => free # {}
            /\ OutputReturn("ramp_fan_speed", r)
            /\ ramp_tasks' = IF r.spawn
                             THEN [ramp_tasks EXCEPT ![CHOOSE t \in free : TRUE] =
                                       [RampIdle EXCEPT !.pc = "check"]]
                             ELSE ramp_tasks
            /\ UNCHANGED <<output_now, output_off_by>>

AppOutputSetEnabled ==
    \E enabled \in BOOLEAN :
        /\ OutputReturn("set_enabled", app_output_set_enabled(OutputDev, enabled))
        /\ output_off_by' = IF enabled THEN "none" ELSE "set_enabled"
        /\ UNCHANGED <<ramp_tasks, output_now>>

AppOutputEmergencyStop ==
    /\ OutputReturn("emergency_stop", app_output_emergency_stop(OutputDev))
    /\ output_off_by' = "emergency_stop"
    /\ UNCHANGED <<ramp_tasks, output_now>>

\* uint8_t new_speed = current_speed + (delta * elapsed_ms) / ramp_duration_ms:
\* delta is an int, elapsed_ms a uint32_t, so the product and the quotient are
\* taken modulo 2^32 (a negative delta counts as 2^32 + delta), and the sum is
\* cut to 8 bits. With k = -delta * elapsed_ms > 0 and m = 2^31 - 1,
\* (2^32 - k) / d = 2 * (m / d) + floor((2 * (m % d) + 2 - k) / d)
RampNewSpeed(current_speed, target_speed, elapsed_ms, duration_ms) ==
    LET delta == target_speed - current_speed
        m == 2^30 + (2^30 - 1)
        k == (0 - delta) * elapsed_ms
        quotient == IF delta >= 0 \/ elapsed_ms = 0
                    THEN (delta * elapsed_ms) \div duration_ms
                    ELSE 2 * (m \div duration_ms)
                         + ((2 * (m % duration_ms) + 2 - k) \div duration_ms)
    IN  (current_speed + quotient) % UINT8_RANGE

\* one statement of the ramp task in slot t; nothing in task_fan_ramp takes
\* a lock
TaskFanRamp ==
    \E t \in RampSlots :
        LET task == ramp_tasks[t]
            Goto(pc) == ramp_tasks' = [ramp_tasks EXCEPT ![t].pc = pc]
        IN  /\ task.pc # "idle"
            /\ CASE task.pc = "check" ->
                       \* while (g_output_ctx.ramp_active), after vTaskDelay
                       /\ output_now >= task.wake_ms
                       /\ Goto(IF g_output_ctx.ramp_active THEN "elapsed" ELSE "end")
                       /\ UNCHANGED <<g_output_ctx, ledc_channel>>
                 [] task.pc = "elapsed" ->
                       LET elapsed_ms == output_now - g_output_ctx.ramp_start_ms
                       IN  /\ ramp_tasks' = [ramp_tasks EXCEPT
                                  ![t].elapsed_ms = elapsed_ms,
                                  ![t].pc = IF elapsed_ms >= g_output_ctx.ramp_duration_ms
                                            THEN "complete_speed" ELSE "interpolate"]
                           /\ UNCHANGED <<g_output_ctx, ledc_channel>>
                 [] task.pc = "complete_speed" ->
                       /\ g_output_ctx' = [g_output_ctx EXCEPT
                              !.fan_speed = g_output_ctx.ramp_target_speed]
                       /\ Goto("complete_set")
                       /\ UNCHANGED ledc_channel
                 [] task.pc = "complete_set" ->
                       /\ ledc_channel' = [ledc_channel EXCEPT !.set = g_output_ctx.fan_speed]
                       /\ Goto("complete_update")
                       /\ UNCHANGED g_output_ctx
                 [] task.pc = "complete_update" ->
                       /\ ledc_channel' = [ledc_channel EXCEPT !.duty = ledc_channel.set]
                       /\ Goto("complete_clear")
                       /\ UNCHANGED g_output_ctx
                 [] task.pc = "complete_clear" ->
                       /\ g_output_ctx' = [g_output_ctx EXCEPT !.ramp_active = FALSE]
                       /\ Goto("end")
                       /\ UNCHANGED ledc_channel
                 [] task.pc = "interpolate" ->
                       /\ ramp_tasks' = [ramp_tasks EXCEPT
                              ![t].new_speed = RampNewSpeed(g_output_ctx.fan_speed,
                                                            g_output_ctx.ramp_target_speed,
                                                            task.elapsed_ms,
                                                            g_output_ctx.ramp_duration_ms),
                              ![t].pc = "interpolate_set"]
                       /\ UNCHANGED <<g_output_ctx, ledc_channel>>
                 [] task.pc = "interpolate_set" ->
                       /\ ledc_channel' = [ledc_channel EXCEPT !.set = task.new_speed]
                       /\ Goto("interpolate_update")
                       /\ UNCHANGED g_output_ctx
                 [] task.pc = "interpolate_update" ->
                       /\ ledc_channel' = [ledc_channel EXCEPT !.duty = ledc_channel.set]
                       /\ Goto("delay")
                       /\ UNCHANGED g_output_ctx
                 [] task.pc = "delay" ->
                       \* vTaskDelay(pdMS_TO_TICKS(50))
                       /\ ramp_tasks' = [ramp_tasks EXCEPT
                              ![t] = [RampIdle EXCEPT !.pc = "check",
                                                      !.wake_ms = output_now + RAMP_STEP_MS]]
                       /\ UNCHANGED <<g_output_ctx, ledc_channel>>
                 [] task.pc = "end" ->
                       \* g_output_ctx.ramp_task = NULL; vTaskDelete(NULL)
                       /\ ramp_tasks' = [ramp_tasks EXCEPT ![t] = RampIdle]
                       /\ UNCHANGED <<g_output_ctx, ledc_channel>>
            /\ UNCHANGED <<gpio_relay_level, output_now, output_call, output_off_by>>

\* 50 ms pass
OutputClockAdvance ==
    /\ output_now < MaxOutputTicks * RAMP_STEP_MS
    /\ output_now' = output_now + RAMP_STEP_MS
    /\ UNCHANGED <<g_output_ctx, gpio_relay_level, ledc_channel, ramp_tasks,
                   output_call, output_off_by>>

\* everything but the output module's variables
not_output == <<wifi_vars, broker_vars, burst_vars, publish_vars, sensor_vars, main_vars,
                status_vars, dht_vars, config_vars, link_vars>>

(***************************************************************************)
(* Configuration (app_config.c): defaults, NVS load, saving credentials    *)
(***************************************************************************)
\* sizes of the string fields of app_config_t
WIFI_SSID_SIZE == 32
WIFI_PASS_SIZE == 64
MQTT_BROKER_URI_SIZE == 128

\* default_config
DEFAULT_DHT_PIN == 4
DEFAULT_RELAY_PIN == 5
DEFAULT_FAN_PIN == 18
DEFAULT_MQTT_QOS == 1
\* "mqtt://192.168.1.40:8883" as character codes
DEFAULT_MQTT_BROKER_URI ==
    <<109, 113, 116, 116, 58, 47, 47, 49, 57, 50, 46, 49, 54, 56, 46, 49, 46, 52, 48,
      58, 56, 56, 56, 51>>

\* a char array of n bytes holding the string str, the rest zero
CharArray(str, n) == [i \in 1..n |-> IF i <= Len(str) THEN str[i] ELSE 0]

\* the string a char array holds: the bytes before the first NUL
CStr(buf) ==
    LET nuls == {i \in 1..Len(buf) : buf[i] = 0}
    IN  IF nuls = {} THEN buf
        ELSE SubSeq(buf, 1, (CHOOSE i \in nuls : \A j \in nuls : i <= j) - 1)

\* strncpy(dest, src, n): the first n bytes of dest become src, padded with
\* NULs when src is shorter and without a NUL when it is not
strncpy(dest, src, n) ==
    [i \in 1..Len(dest) |->
        IF i > n THEN dest[i] ELSE IF i <= Len(src) THEN src[i] ELSE 0]

default_config ==
    [dht_pin |-> DEFAULT_DHT_PIN, relay_pin |-> DEFAULT_RELAY_PIN,
     fan_pin |-> DEFAULT_FAN_PIN, mqtt_qos |-> DEFAULT_MQTT_QOS,
     wifi_ssid |-> CharArray(<<>>, WIFI_SSID_SIZE),
     wifi_pass |-> CharArray(<<>>, WIFI_PASS_SIZE),
     mqtt_broker_uri |-> CharArray(DEFAULT_MQTT_BROKER_URI, MQTT_BROKER_URI_SIZE)]

\* the keys app_config_load looks up
NvsStringKeys == {"wifi_ssid", "wifi_pass", "mqtt_broker_uri"}
NvsU8Keys == {"dht_pin", "relay_pin", "fan_pin", "mqtt_qos"}

\* static app_config_t g_app_config (zeroed), a flash without the namespace
ConfigInit ==
    /\ g_app_config = [dht_pin |-> 0, relay_pin |-> 0, fan_pin |-> 0, mqtt_qos |-> 0,
                       wifi_ssid |-> CharArray(<<>>, WIFI_SSID_SIZE),
                       wifi_pass |-> CharArray(<<>>, WIFI_PASS_SIZE),
                       mqtt_broker_uri |-> CharArray(<<>>, MQTT_BROKER_URI_SIZE)]
    /\ nvs_flash = [initialized |-> FALSE, namespace |-> FALSE,
                    keys |-> [k \in NvsStringKeys \cup NvsU8Keys |-> <<>>]]
    /\ config_call = [fn |-> "NONE", ret |-> "NONE", changed |-> FALSE]
    /\ config_saved = <<>>

\* nvs_open("smarthome", mode): a read-only open needs the namespace to
\* exist, a read-write open creates it
nvs_open(nvs, mode) ==
    IF ~nvs.initialized THEN "ESP_ERR_NVS_NOT_INITIALIZED"
    ELSE IF mode = "NVS_READONLY" /\ ~nvs.namespace THEN "ESP_ERR_NVS_NOT_FOUND"
    ELSE "ESP_OK"

\* nvs_get_str(handle, key, dest, &dest_size): the stored string and its NUL
\* are copied when they fit, dest is left alone otherwise
nvs_get_str(nvs, key, dest) ==
    IF nvs.keys[key] = <<>> THEN [err |-> "ESP_ERR_NVS_NOT_FOUND", dest |-> dest]
    ELSE LET str == nvs.keys[key][1]
         IN  IF Len(str) + 1 > Len(dest)
             THEN [err |-> "ESP_ERR_NVS_INVALID_LENGTH", dest |-> dest]
             ELSE [err |-> "ESP_OK",
                   dest |-> [i \in 1..Len(dest) |->
                               IF i <= Len(str) THEN str[i]
                               ELSE IF i = Len(str) + 1 THEN 0 ELSE dest[i]]]

\* config_nvs_load_string(handle, key, dest, dest_size, default_value)
config_nvs_load_string(nvs, key, dest, default_value) ==
    LET got == nvs_get_str(nvs, key, dest)
    IN  IF got.err = "ESP_ERR_NVS_NOT_FOUND"
        THEN [ret |-> "APP_OK",
              dest |-> [strncpy(dest, default_value, Len(dest) - 1)
                            EXCEPT ![Len(dest)] = 0]]
        ELSE IF got.err = "ESP_OK" THEN [ret |-> "APP_OK", dest |-> got.dest]
        ELSE [ret |-> "APP_ERR_UNKNOWN", dest |-> got.dest]

\* config_nvs_load_u8(handle, key, dest, default_value)
config_nvs_load_u8(nvs, key, dest, default_value) ==
    IF nvs.keys[key] = <<>> THEN [ret |-> "APP_OK", dest |-> default_value]
    ELSE [ret |-> "APP_OK", dest |-> nvs.keys[key][1]]

\* app_config_load(): the configuration afterwards and the return value
app_config_load(nvs) ==
    IF nvs_open(nvs, "NVS_READONLY") # "ESP_OK"
    THEN [cfg |-> default_config, ret |-> "APP_OK"]
    ELSE [cfg |->
            [wifi_ssid |-> config_nvs_load_string(nvs, "wifi_ssid",
                               default_config.wifi_ssid, <<>>).dest,
             wifi_pass |-> config_nvs_load_string(nvs, "wifi_pass",
                               default_config.wifi_pass, <<>>).dest,
             mqtt_broker_uri |-> config_nvs_load_string(nvs, "mqtt_broker_uri",
                                     default_config.mqtt_broker_uri, <<>>).dest,
             dht_pin |-> config_nvs_load_u8(nvs, "dht_pin", default_config.dht_pin,
                                            default_config.dht_pin).dest,
             relay_pin |-> config_nvs_load_u8(nvs, "relay_pin", default_config.relay_pin,
                                              default_config.relay_pin).dest,
             fan_pin |-> config_nvs_load_u8(nvs, "fan_pin", default_config.fan_pin,
                                            default_config.fan_pin).dest,
             mqtt_qos |-> config_nvs_load_u8(nvs, "mqtt_qos", default_config.mqtt_qos,
                                             default_config.mqtt_qos).dest],
          ret |-> "APP_OK"]

\* nvs_set_str(handle, key, value): stored unless the partition has no room
nvs_set_str(nvs, key, value, has_room) ==
    IF has_room THEN [nvs EXCEPT !.keys[key] = <<value>>] ELSE nvs

\* app_config_save_wifi(ssid, password): the results of nvs_set_str and
\* nvs_commit are not looked at
app_config_save_wifi(cfg, nvs, ssid_null, ssid, password_null, password, room_ssid, room_pass) ==
    IF ssid_null \/ password_null
    THEN [cfg |-> cfg, nvs |-> nvs, ret |-> "APP_ERR_INVALID_PARAM"]
    ELSE IF Len(ssid) >= WIFI_SSID_SIZE \/ Len(password) >= WIFI_PASS_SIZE
    THEN [cfg |-> cfg, nvs |-> nvs, ret |-> "APP_ERR_INVALID_VALUE"]
    ELSE IF nvs_open(nvs, "NVS_READWRITE") # "ESP_OK"
    THEN [cfg |-> cfg, nvs |-> nvs, ret |-> "APP_ERR_UNKNOWN"]
    ELSE [cfg |-> [cfg EXCEPT
                     !.wifi_ssid = strncpy(cfg.wifi_ssid, ssid, WIFI_SSID_SIZE - 1),
                     !.wifi_pass = strncpy(cfg.wifi_pass, password, WIFI_PASS_SIZE - 1)],
          nvs |-> nvs_set_str(
                      nvs_set_str([nvs EXCEPT !.namespace = TRUE],
                                  "wifi_ssid", ssid, room_ssid),
                      "wifi_pass", password, room_pass),
          ret |-> "APP_OK"]

\* app_config_init_nvs(): nvs_flash_init succeeds or not
AppConfigInitNvs ==
    \E flash_ok \in BOOLEAN :
        /\ nvs_flash' = [nvs_flash EXCEPT !.initialized = @ \/ flash_ok]
        /\ config_call' = [fn |-> "init_nvs",
                           ret |-> IF flash_ok THEN "APP_OK" ELSE "APP_ERR_UNKNOWN",
                           changed |-> FALSE]
        /\ UNCHANGED <<g_app_config, config_saved>>

AppConfigLoad ==
    LET r == app_config_load(nvs_flash)
    IN  /\ g_app_config' = r.cfg
        /\ config_call' = [fn |-> "load", ret |-> r.ret,
                           changed |-> r.cfg # g_app_config]
        /\ UNCHANGED <<nvs_flash, config_saved>>

\* a string of n characters c
Chars(c, n) == [i \in 1..n |-> c]

\* the arguments a caller passes: short credentials, the greatest lengths
\* accepted, one character too many in either, and NULL for either
SaveWifiArgs ==
    LET Args(ssid_null, ssid, password_null, password) ==
            [ssid_null |-> ssid_null, ssid |-> ssid,
             password_null |-> password_null, password |-> password]
        short_ssid == <<84, 101, 115, 116>>
        short_pass == <<80, 97, 115, 115>>
    IN  {Args(FALSE, short_ssid, FALSE, short_pass),
         Args(FALSE, Chars(65, WIFI_SSID_SIZE - 1), FALSE, Chars(67, WIFI_PASS_SIZE - 1)),
         Args(FALSE, Chars(66, WIFI_SSID_SIZE), FALSE, short_pass),
         Args(FALSE, short_ssid, FALSE, Chars(68, WIFI_PASS_SIZE)),
         Args(TRUE, <<>>, FALSE, short_pass),
         Args(FALSE, short_ssid, TRUE, <<>>)}

AppConfigSaveWifi ==
    \E args \in SaveWifiArgs, room_ssid \in BOOLEAN, room_pass \in BOOLEAN :
        LET r == app_config_save_wifi(g_app_config, nvs_flash, args.ssid_null, args.ssid,
                                      args.password_null, args.password,
                                      room_ssid, room_pass)
        IN  /\ g_app_config' = r.cfg
            /\ nvs_flash' = r.nvs
            /\ config_call' = [fn |-> "save_wifi", ret |-> r.ret,
                               changed |-> r.cfg # g_app_config]
            /\ config_saved' = IF r.ret = "APP_OK"
                               THEN <<[ssid |-> args.ssid, password |-> args.password]>>
                               ELSE config_saved

\* values a provisioning tool stores under the keys this firmware only reads
ProvisionedValues ==
    [dht_pin |-> 21, mqtt_qos |-> 2,
     mqtt_broker_uri |-> <<109, 113, 116, 116, 58, 47, 47, 98>>]

\* the namespace is provisioned with one more key from outside
NvsProvision ==
    /\ nvs_flash.initialized
    /\ \E key \in DOMAIN ProvisionedValues :
          nvs_flash' = [nvs_flash EXCEPT !.namespace = TRUE,
                                         !.keys[key] = <<ProvisionedValues[key]>>]
    /\ UNCHANGED <<g_app_config, config_call, config_saved>>

\* everything but the configuration store's variables
not_config == <<wifi_vars, broker_vars, burst_vars, publish_vars, sensor_vars, main_vars,
                status_vars, dht_vars, output_vars, link_vars>>

(***************************************************************************)
(* Link manager against the clock: when the reconnect is issued            *)
(***************************************************************************)
\* laps of WIFI_RETRY_MIN_MS the clock makes
MaxLinkTicks == 3

LinkInit ==
    /\ link_now = 0
    /\ link_retry = <<>>

\* the time wifi_event_handler spends blocked between the arrival of
\* WIFI_EVENT_STA_DISCONNECTED and its esp_wifi_connect(): the retry branch
\* calls no delay and arms no timer
RetryBranchWait == 0

\* case WIFI_EVENT_STA_DISCONNECTED, arriving at link_now
TimedStaDisconnected ==
    /\ HandleStaDisconnected
    /\ link_retry' = IF "esp_wifi_connect" \in wifi_fired'
                     THEN <<[lost_at |-> link_now,
                             connect_at |-> link_now + RetryBranchWait,
                             delay_ms |-> g_wifi_ctx'.retry_delay_ms]>>
                     ELSE <<>>
    /\ link_now' = link_now + RetryBranchWait

\* time passes between two events
LinkClockAdvance ==
    /\ link_now < MaxLinkTicks * WIFI_RETRY_MIN_MS
    /\ link_now' = link_now + WIFI_RETRY_MIN_MS
    /\ UNCHANGED link_retry

\* everything but the link manager's variables and its clock
not_link == <<broker_vars, burst_vars, publish_vars, sensor_vars, main_vars,
              status_vars, dht_vars, output_vars, config_vars>>

(***************************************************************************)
(* Specifications                                                          *)
(***************************************************************************)
\* no message of a burst delivered yet
BurstInit ==
    /\ burst_payload = [json |-> FALSE, type_is_string |-> FALSE, type |-> "",
                        value_is_number |-> FALSE, value |-> 0]
    /\ enq_count = 0

Init ==
    /\ WifiInit /\ BrokerInit /\ BurstInit /\ PublishInit /\ SensorInit /\ MainInit
    /\ StatusInit /\ DhtInit /\ OutputInit /\ ConfigInit /\ LinkInit

\* the link manager and its driver
Next ==
    \/ AppWifiInit /\ UNCHANGED not_wifi
    \/ HandleStaStart /\ UNCHANGED not_wifi
    \/ HandleStaConnected /\ UNCHANGED not_wifi
    \/ HandleStaDisconnected /\ UNCHANGED not_wifi
    \/ HandleGotIp /\ UNCHANGED not_wifi
    \/ HandleLostIp /\ UNCHANGED not_wifi
    \/ AppWifiDisconnect /\ UNCHANGED not_wifi
    \/ AppWifiWaitConnected /\ UNCHANGED not_wifi

Spec == Init /\ [][Next]_vars

\* the link manager and its driver with the clock running
LinkTimedNext ==
    \/ AppWifiInit /\ UNCHANGED <<not_link, link_vars>>
    \/ HandleStaStart /\ UNCHANGED <<not_link, link_vars>>
    \/ HandleStaConnected /\ UNCHANGED <<not_link, link_vars>>
    \/ TimedStaDisconnected /\ UNCHANGED not_link
    \/ HandleGotIp /\ UNCHANGED <<not_link, link_vars>>
    \/ LinkClockAdvance /\ UNCHANGED <<wifi_vars, not_link>>

SpecLinkTimed == Init /\ [][LinkTimedNext]_vars

\* the broker manager, its client, and the command path of the orchestrator
BrokerNext ==
    \/ AppMqttInit /\ UNCHANGED not_broker
    \/ HandleMqttConnected /\ UNCHANGED not_broker
    \/ HandleMqttDisconnected /\ UNCHANGED not_broker
    \/ HandleMqttData /\ UNCHANGED not_broker
    \/ RxWaitBroker /\ UNCHANGED not_broker
    \/ RxReceiveCommand /\ UNCHANGED not_broker
    \/ RxReceiveTimeout /\ UNCHANGED not_broker
    \/ OutputControlStep /\ UNCHANGED not_broker

SpecBroker == Init /\ [][BrokerNext]_vars

\* the command queue under a burst of inbound messages
QueueNext ==
    \/ AppMqttInit /\ UNCHANGED not_broker
    \/ HandleMqttConnected /\ UNCHANGED not_broker
    \/ HandleMqttBurst /\ UNCHANGED <<wifi_vars, publish_vars, sensor_vars, main_vars, aux_vars>>
    \/ RxWaitBroker /\ UNCHANGED not_broker
    \/ RxReceiveCommand /\ UNCHANGED not_broker
    \/ RxReceiveTimeout /\ UNCHANGED not_broker
    \/ OutputControlStep /\ UNCHANGED not_broker

SpecQueue == Init /\ [][QueueNext]_vars

\* the producers and consumers of the three queues side by side
CapacityNext ==
    \/ AppMqttInit /\ UNCHANGED not_broker
    \/ HandleMqttConnected /\ UNCHANGED not_broker
    \/ HandleMqttBurst /\ UNCHANGED <<wifi_vars, publish_vars, sensor_vars, main_vars, aux_vars>>
    \/ RxWaitBroker /\ UNCHANGED not_broker
    \/ RxReceiveCommand /\ UNCHANGED not_broker
    \/ RxReceiveTimeout /\ UNCHANGED not_broker
    \/ OutputControlStep /\ UNCHANGED not_broker
    \/ SamplerRun /\ UNCHANGED <<wifi_vars, burst_vars, publish_vars, main_vars, aux_vars>>

SpecCapacity == Init /\ [][CapacityNext]_vars

\* the broker manager's publish path and the session events around it
PublishNext ==
    \/ AppMqttInit /\ UNCHANGED not_broker
    \/ HandleMqttConnected /\ UNCHANGED not_broker
    \/ HandleMqttDisconnected /\ UNCHANGED not_broker
    \/ AppMqttDisconnect /\ UNCHANGED not_broker
    \/ AppMqttPublish /\ UNCHANGED <<wifi_vars, burst_vars, sensor_vars, main_vars, aux_vars>>

SpecPublish == Init /\ [][PublishNext]_vars

\* the application as app_main wires it: link manager, broker manager and
\* the supervisor loop acting on SystemStatus
SystemNext ==
    \/ MainWifiInit /\ UNCHANGED <<broker_vars, side_vars>>
    \/ MainMqttInit /\ UNCHANGED <<wifi_vars, side_vars>>
    \/ MainSupervisorStep /\ UNCHANGED <<wifi_vars, side_vars>>
    \/ HandleStaStart /\ UNCHANGED not_wifi
    \/ HandleStaConnected /\ UNCHANGED not_wifi
    \/ HandleStaDisconnected /\ UNCHANGED not_wifi
    \/ GotIpInApp /\ UNCHANGED <<side_vars, main_vars>>
    \/ HandleLostIp /\ UNCHANGED not_wifi
    \/ MqttConnectedInApp /\ UNCHANGED not_broker
    \/ HandleMqttDisconnected /\ UNCHANGED not_broker

SpecSystem == Init /\ [][SystemNext]_vars

\* the application from phase 3 on: the task system is initialized and
\* started before the link and the broker session come up
InitBoot ==
    /\ WifiInit /\ BrokerStart(ZeroStatus) /\ BurstInit /\ PublishInit /\ SensorInit
    /\ BootInit /\ StatusInit /\ DhtInit /\ OutputInit /\ ConfigInit /\ LinkInit

BootNext ==
    \/ SystemTaskInit /\ UNCHANGED <<wifi_vars, side_vars>>
    \/ SystemTaskStartAll /\ UNCHANGED <<wifi_vars, side_vars>>
    \/ MainWifiInit /\ UNCHANGED <<broker_vars, side_vars>>
    \/ MainMqttInit /\ UNCHANGED <<wifi_vars, side_vars>>
    \/ MainSupervisorStep /\ UNCHANGED <<wifi_vars, side_vars>>
    \/ HandleStaStart /\ UNCHANGED not_wifi
    \/ HandleStaConnected /\ UNCHANGED not_wifi
    \/ HandleStaDisconnected /\ UNCHANGED not_wifi
    \/ GotIpInApp /\ UNCHANGED <<side_vars, main_vars>>
    \/ HandleLostIp /\ UNCHANGED not_wifi
    \/ MqttConnectedInApp /\ UNCHANGED not_broker
    \/ HandleMqttDisconnected /\ UNCHANGED not_broker

SpecBoot == InitBoot /\ [][BootNext]_vars

\* ... with app_main scheduled fairly: it gets through its phases and keeps
\* running the supervisor loop
SpecSystemFair ==
    /\ SpecSystem
    /\ WF_vars(MainWifiInit /\ UNCHANGED <<broker_vars, side_vars>>)
    /\ WF_vars(MainMqttInit /\ UNCHANGED <<wifi_vars, side_vars>>)
    /\ WF_vars(MainSupervisorStep /\ UNCHANGED <<wifi_vars, side_vars>>)

\* the sampler and the sensor queue, with the broker session coming up
SensorNext ==
    \/ AppMqttInit /\ UNCHANGED not_broker
    \/ HandleMqttConnected /\ UNCHANGED not_broker
    \/ SamplerIteration /\ UNCHANGED <<wifi_vars, burst_vars, publish_vars, main_vars, aux_vars>>
    \/ QueueSensorDataCall /\ UNCHANGED <<wifi_vars, broker_vars, burst_vars, publish_vars, main_vars, aux_vars>>

SpecSensor == Init /\ [][SensorNext]_vars

\* ... every worker and the event task scheduled fairly
SpecSensorFair ==
    /\ SpecSensor
    /\ WF_vars(AppMqttInit /\ UNCHANGED not_broker)
    /\ WF_vars(HandleMqttConnected /\ UNCHANGED not_broker)
    /\ WF_vars(SamplerIteration /\ UNCHANGED <<wifi_vars, burst_vars, publish_vars, main_vars, aux_vars>>)
    /\ WF_vars(QueueSensorDataCall
                /\ UNCHANGED <<wifi_vars, broker_vars, burst_vars, publish_vars, main_vars,
                               aux_vars>>)

\* the callers of the status helpers and the reader, statement by statement
StatusNext ==
    \/ SamplerCountsRead /\ UNCHANGED not_status
    \/ CommandRecordsError /\ UNCHANGED not_status
    \/ MonitorRecordsError /\ UNCHANGED not_status
    \/ WifiSignalsConnected /\ UNCHANGED not_status
    \/ MqttSignalsConnected /\ UNCHANGED not_status
    \/ MainGetStatus /\ UNCHANGED not_status
    \/ MainSignalReady /\ UNCHANGED not_status
    \/ (\E t \in StatusTasks : StatusStatement(t)) /\ UNCHANGED not_status
    \/ (\E t \in StatusTasks : StatusExit(t)) /\ UNCHANGED not_status

SpecStatus == Init /\ [][StatusNext]_vars

\* ... and the monitor's periodic report among them
MonitorNext ==
    \/ MonitorLogsStatus /\ UNCHANGED not_status
    \/ SamplerCountsRead /\ UNCHANGED not_status
    \/ CommandRecordsError /\ UNCHANGED not_status
    \/ MonitorRecordsError /\ UNCHANGED not_status
    \/ WifiSignalsConnected /\ UNCHANGED not_status
    \/ MqttSignalsConnected /\ UNCHANGED not_status
    \/ MainGetStatus /\ UNCHANGED not_status
    \/ MainSignalReady /\ UNCHANGED not_status
    \/ (\E t \in StatusTasks : StatusStatement(t)) /\ UNCHANGED not_status
    \/ (\E t \in StatusTasks : StatusExit(t)) /\ UNCHANGED not_status

SpecMonitor == Init /\ [][MonitorNext]_vars

\* the sensor driver, its callers and the clock
DhtNext ==
    \/ SensorDhtInit /\ UNCHANGED not_dht
    \/ SensorDhtReadCall /\ UNCHANGED not_dht
    \/ SensorDhtGetLastReading /\ UNCHANGED not_dht
    \/ ClockAdvance /\ UNCHANGED not_dht

SpecDht == Init /\ [][DhtNext]_vars

\* the sensor driver decoding every frame of FrameBytes
FrameNext ==
    \/ SensorDhtInit /\ UNCHANGED not_dht
    \/ SensorDhtReadFrame /\ UNCHANGED not_dht
    \/ ClockAdvance /\ UNCHANGED not_dht

SpecFrame == Init /\ [][FrameNext]_vars

\* the output module: its API called by the control tasks, the ramp task
\* running statement by statement in between
OutputNext ==
    \/ AppOutputInit /\ UNCHANGED not_output
    \/ AppOutputSetRelay /\ UNCHANGED not_output
    \/ AppOutputSetFanSpeed /\ UNCHANGED not_output
    \/ AppOutputRampFanSpeed /\ UNCHANGED not_output
    \/ AppOutputSetEnabled /\ UNCHANGED not_output
    \/ AppOutputEmergencyStop /\ UNCHANGED not_output
    \/ TaskFanRamp /\ UNCHANGED not_output
    \/ OutputClockAdvance /\ UNCHANGED not_output

SpecOutput == Init /\ [][OutputNext]_vars

\* the configuration API and the provisioning of the flash
ConfigNext ==
    \/ AppConfigInitNvs /\ UNCHANGED not_config
    \/ AppConfigLoad /\ UNCHANGED not_config
    \/ AppConfigSaveWifi /\ UNCHANGED not_config
    \/ NvsProvision /\ UNCHANGED not_config

SpecConfig == Init /\ [][ConfigNext]_vars

(***************************************************************************)
(* Properties                                                              *)
(***************************************************************************)
Min(a, b) == IF a < b THEN a ELSE b

\* min(1000 * 2^n, 60000) over the integers (2^6 * 1000 already exceeds the cap)
ExpectedBackoff(n) ==
    IF n >= 6 THEN WIFI_RETRY_MAX_MS
    ELSE Min(WIFI_RETRY_MIN_MS * 2 ^ n, WIFI_RETRY_MAX_MS)

\* C1: for every configured max_retries and every N < max_retries, the N-th
\* consecutive link-lost event since the last address assignment (N from 0)
\* stores reconnect delay min(1000 * 2^N, 60000) ms.
C1_BackoffDelay ==
    (/\ wifi_last_event = "STA_DISCONNECTED"
     /\ lost_since_ip >= 1
     /\ lost_since_ip - 1 < g_wifi_ctx.max_retries)
        => g_wifi_ctx.retry_delay_ms = ExpectedBackoff(lost_since_ip - 1)

\* C2: after app_mqtt_init the broker reconnect delay stays within
\* [1000, 60000] ms; a connected event sets it to 1000 and a disconnected event
\* to min(2 * previous, 60000).
C2_BrokerDelayRange ==
    g_mqtt_ctx.initialized =>
        /\ g_mqtt_ctx.reconnect_delay_ms >= MQTT_BACKOFF_INIT_MS
        /\ g_mqtt_ctx.reconnect_delay_ms <= MQTT_BACKOFF_LIMIT_MS
        /\ mqtt_last_event = "CONNECTED" =>
                g_mqtt_ctx.reconnect_delay_ms = MQTT_BACKOFF_INIT_MS
        /\ mqtt_last_event = "DISCONNECTED" =>
                g_mqtt_ctx.reconnect_delay_ms = Min(2 * mqtt_prev_delay, MQTT_BACKOFF_LIMIT_MS)

\* C3 (as stated): with max_retries = M and no address assignment in between,
\* Failed is entered exactly when the M-th consecutive attempt fails, and no
\* (M+1)-th connect attempt is issued.
C3_FailedAtMthFailure ==
    ip_reset_from = "none" =>
        /\ wifi_last_event = "STA_DISCONNECTED" =>
                (g_wifi_ctx.state = "FAILED" <=> lost_since_ip >= g_wifi_ctx.max_retries)
        /\ connects_since_ip <= g_wifi_ctx.max_retries

\* C3 (amended): with max_retries = M and no address assignment in between,
\* Failed is entered exactly when the (M+1)-th consecutive link-lost event is
\* handled (the initial attempt and all M retries have failed); the handler
\* issues at most M reconnect attempts, M+1 attempts with the initial one.
C3_FailedAfterBudget ==
    /\ wifi_last_event = "STA_DISCONNECTED" =>
            (g_wifi_ctx.state = "FAILED" <=> lost_since_ip > g_wifi_ctx.max_retries)
    /\ connects_since_ip <= g_wifi_ctx.max_retries
                                + (IF ip_reset_from = "none" THEN 1 ELSE 0)
    /\ (wifi_last_event = "STA_DISCONNECTED" /\ g_wifi_ctx.state = "FAILED")
            => "esp_wifi_connect" \notin wifi_fired

\* a cold start with M = 3: the fourth failure moved the manager to Failed
\* after four connect attempts
C3_Witness ==
    /\ g_wifi_ctx.max_retries = 3
    /\ ip_reset_from = "none"
    /\ wifi_last_event = "STA_DISCONNECTED"
    /\ g_wifi_ctx.state = "FAILED"
    /\ lost_since_ip = 4
    /\ connects_since_ip = 4

\* C4: over any sequence of link events, on_connect_failed is invoked exactly
\* once (never a second time, and once whenever the budget ran out with a
\* callback configured).
C4_FailedCallbackOnce ==
    /\ failed_cb_calls <= 1
    /\ (g_wifi_ctx.on_connect_failed /\ g_wifi_ctx.total_failed_attempts >= 1)
            => failed_cb_calls = 1

\* C5: Failed is terminal: no later event changes the state to anything else,
\* and Failed is entered only when retry_count has reached max_retries.
C5_FailedTerminal ==
    [][/\ g_wifi_ctx.state = "FAILED" => g_wifi_ctx'.state = "FAILED"
       /\ (g_wifi_ctx.state # "FAILED" /\ g_wifi_ctx'.state = "FAILED")
            => g_wifi_ctx'.retry_count = g_wifi_ctx'.max_retries]_vars

\* C6: address assignment sets retry_count to 0, so the first link-lost event
\* after any address assignment stores a delay of 1000 ms, whatever
\* retry_count was before the assignment.
C6_ResetOnAddress ==
    /\ wifi_last_event = "GOT_IP" => g_wifi_ctx.retry_count = 0
    /\ (/\ wifi_last_event = "STA_DISCONNECTED"
        /\ ip_reset_from # "none"
        /\ lost_since_ip = 1)
            => /\ g_wifi_ctx.retry_delay_ms = WIFI_RETRY_MIN_MS
               /\ g_wifi_ctx.retry_count = 1

\* the first link-lost event after an assignment that found retry_count > 0
C6_Witness ==
    /\ wifi_last_event = "STA_DISCONNECTED"
    /\ ip_reset_from = "nonzero"
    /\ lost_since_ip = 1
    /\ g_wifi_ctx.retry_delay_ms = WIFI_RETRY_MIN_MS

\* C7: the state is Connected only after an address has been assigned for the
\* current association; the link-up bit and on_connected fire only at address
\* assignment.
C7_ConnectedNeedsAddress ==
    /\ g_wifi_ctx.state = "CONNECTED" => ip_assigned
    /\ "on_connected" \in wifi_fired => wifi_last_event = "GOT_IP"
    /\ "WIFI_CONNECTED_BIT" \in wifi_event_bits => ip_reset_from # "none"

\* C8: app_wifi_wait_connected returns success only if the manager is
\* connected when it returns, the connect-failure error only if it is Failed,
\* and the timeout error otherwise.
C8_WaitResult ==
    /\ wait_result = "APP_OK" => g_wifi_ctx.connected
    /\ wait_result = "APP_ERR_WIFI_CONNECT" => g_wifi_ctx.state = "FAILED"
    /\ wait_result = "APP_ERR_TIMEOUT" =>
            (~g_wifi_ctx.connected /\ g_wifi_ctx.state # "FAILED")

\* C9: for every command the command consumer dequeues: an out-of-range relay
\* or fan value makes no OutputDriver call and raises error_count by one; an
\* in-range relay (fan) value v results in exactly one set_relay(v)
\* (set_fan_speed(v)) call.
C9_CommandValidation ==
    rx_dequeued =>
        /\ (rx_last_cmd.type = "relay" /\ rx_last_cmd.value \notin {0, 1})
                => (driver_calls = <<>> /\ rx_error_delta = 1)
        /\ (rx_last_cmd.type = "fan" /\ rx_last_cmd.value \notin 0..FAN_VALUE_MAX)
                => (driver_calls = <<>> /\ rx_error_delta = 1)
        /\ (rx_last_cmd.type = "relay" /\ rx_last_cmd.value \in {0, 1})
                => /\ Len(driver_calls) = 1
                   /\ driver_calls[1].fn = "set_relay"
                   /\ driver_calls[1].arg = rx_last_cmd.value
        /\ (rx_last_cmd.type = "fan" /\ rx_last_cmd.value \in 0..FAN_VALUE_MAX)
                => /\ Len(driver_calls) = 1
                   /\ driver_calls[1].fn = "set_fan_speed"
                   /\ driver_calls[1].arg = rx_last_cmd.value

\* {"type":"relay","value":2} was dequeued: rejected, counted, not applied
C9_Witness ==
    /\ rx_dequeued
    /\ rx_last_cmd = [type |-> "relay", value |-> 2]
    /\ driver_calls = <<>>
    /\ rx_error_delta = 1
    /\ g_system_status.last_error = "APP_ERR_INVALID_VALUE"

\* C10: every accepted command is applied to the OutputDriver by the actuation
\* consumer worker, never by the command consumer: no OutputDriver call
\* executes in the worker that waits on broker input.
C10_ActuationByOutputTask ==
    \A i \in 1..Len(driver_calls) : driver_calls[i].worker = "output_task"

\* the commands still queued are the last Len(queue) commands the queue
\* accepted, oldest first, and the command consumed last is the one accepted
\* just before them
C11_PendingInOrder ==
    /\ \A i \in 1..Len(mqtt_command_queue) :
            mqtt_command_queue[i].value = enq_count - Len(mqtt_command_queue) + i
    /\ rx_last_cmd.value = enq_count - Len(mqtt_command_queue)
    /\ rx_dequeued =>
            driver_calls = <<[worker |-> "mqtt_rx_task", fn |-> "set_fan_speed",
                              arg |-> rx_last_cmd.value]>>
    /\ ~rx_dequeued => driver_calls = <<>>

\* C11: commands are consumed in FIFO order and exactly once: the command
\* consumer processes the n-th enqueued command as its n-th command (none
\* skipped, none twice), and each is applied to the OutputDriver by exactly
\* one call.
C11_FifoExactlyOnce ==
    /\ []C11_PendingInOrder
    /\ [][rx_last_cmd' # rx_last_cmd => rx_last_cmd'.value = rx_last_cmd.value + 1]_vars

\* the consumer has just applied the third command while the fourth and
\* fifth wait
C11_Witness ==
    /\ rx_dequeued
    /\ rx_last_cmd = [type |-> "fan", value |-> 3]
    /\ Len(mqtt_command_queue) = 2
    /\ mqtt_command_queue[1].value = 4
    /\ driver_calls[1].arg = 3

\* the payload is a JSON object with a string "type" and a numeric "value"
C12_IsCommandObject(payload) ==
    payload.json /\ payload.type_is_string /\ payload.value_is_number

C12_WitnessContinues ==
    /\ g_mqtt_ctx.messages_received > enq_count
    /\ C12_IsCommandObject(burst_payload)
    /\ mqtt_command_queue # <<>>
    /\ mqtt_command_queue[Len(mqtt_command_queue)].value = burst_payload.value

C14_PublishWhileDown ==
    (/\ publish_call.ret # "NONE"
     /\ publish_call.args_valid
     /\ (~publish_call.initialized \/ ~publish_call.connected))
        => /\ publish_call.ret = "APP_ERR_MQTT_PUBLISH"
           /\ publish_call.client_calls = <<>>
           /\ publish_call.failures_delta = 1
           /\ publish_call.published_delta = 0

\* a publish after the session dropped: initialized, not connected, one
\* message published before, this call counted as the first failure
C14_Witness ==
    /\ publish_call.ret = "APP_ERR_MQTT_PUBLISH"
    /\ publish_call.args_valid
    /\ publish_call.initialized
    /\ ~publish_call.connected
    /\ publish_call.client_calls = <<>>
    /\ g_mqtt_ctx.publish_failures = 1
    /\ g_mqtt_ctx.messages_published = 1

\* the step is a sampler iteration / a queueing call that offered a message
C15_SamplerOffered == sampler_runs' = sampler_runs + 1 /\ sampler_offered' # <<>>
C15_ApiOffered == api_toggle' # api_toggle /\ api_result' # "APP_ERR_INVALID_PARAM"

\* C15: when the sampler or system_task_queue_sensor_data offers a reading to
\* a sensor queue that already holds 5 items, the call returns at once, the
\* queue is unchanged, and a drop counter goes up by one.  (The status record
\* has two counters that are not the count of good reads.)
C15_DropCounted ==
    [][((C15_SamplerOffered \/ C15_ApiOffered) /\ Len(g_sensor_queue) = 5) =>
        /\ g_sensor_queue' = g_sensor_queue
        /\ \/ g_system_status'.error_count = g_system_status.error_count + 1
           \/ g_system_status'.sensor_error_count
                    = g_system_status.sensor_error_count + 1]_vars

\* C16: in every reachable state the sensor-reading queue holds at most 5
\* items and each command queue holds at most 10 items.
C16_QueueCapacity ==
    /\ Len(g_sensor_queue) <= 5
    /\ Len(mqtt_command_queue) <= 10
    /\ Len(g_command_queue) <= 10

\* both queues are full, a sixth reading and an eleventh command having
\* been offered
C16_Witness ==
    /\ Len(g_sensor_queue) = 5
    /\ g_system_status.sensor_read_count = 6
    /\ Len(mqtt_command_queue) = 10
    /\ g_mqtt_ctx.messages_received = 11
    /\ C12_IsCommandObject(burst_payload)

\* a reading with sequence number n waits in the sensor queue
C17_Queued(n) == \E i \in 1..Len(g_sensor_queue) : g_sensor_queue[i].sequence = n

\* C17: every reading the sampler places on the sensor queue is eventually
\* dequeued (while the broker session is connected, under fair scheduling).
C17_ReadingsDequeued ==
    \A n \in 0..MaxSensorReads :
        (C17_Queued(n) /\ g_mqtt_ctx.connected)
            ~> (~C17_Queued(n) \/ ~g_mqtt_ctx.connected)

\* the read of the last sampler iteration succeeded with a valid reading
C18_ReadOk == sampler_read'.ret = "APP_OK" /\ sampler_read'.is_valid

\* C18: in each sampler iteration exactly one of sensor_read_count and
\* sensor_error_count goes up by one: the read counter iff read() returned
\* success with a valid reading, and then exactly one message with the next
\* sequence number is offered to the sensor queue; on failure the queue, the
\* read counter and the sequence number are unchanged.
C18_SamplerIteration ==
    [][sampler_runs' = sampler_runs + 1 =>
        IF C18_ReadOk
        THEN /\ g_system_status'.sensor_read_count
                    = g_system_status.sensor_read_count + 1
             /\ g_system_status'.sensor_error_count = g_system_status.sensor_error_count
             /\ Len(sampler_offered') = 1
             /\ sampler_offered'[1].sequence = read_sequence
             /\ read_sequence' = read_sequence + 1
             /\ g_sensor_queue' \in {g_sensor_queue,
                                     Append(g_sensor_queue, sampler_offered'[1])}
        ELSE /\ g_system_status'.sensor_error_count
                    = g_system_status.sensor_error_count + 1
             /\ g_system_status'.sensor_read_count = g_system_status.sensor_read_count
             /\ sampler_offered' = <<>>
             /\ g_sensor_queue' = g_sensor_queue
             /\ read_sequence' = read_sequence]_vars

\* three iterations: two good reads queued with sequence numbers 0 and 1, then
\* a cached reading that was not valid, counted as an error
C18_Witness ==
    /\ sampler_runs = 3
    /\ sampler_read = [ret |-> "APP_OK", is_valid |-> FALSE]
    /\ g_system_status.sensor_read_count = 2
    /\ g_system_status.sensor_error_count = 1
    /\ read_sequence = 2
    /\ Len(g_sensor_queue) = 2
    /\ g_sensor_queue[2].sequence = 1

\* C19: the command consumer calls receive_command (and so dequeues a
\* command) only after the broker-up signal has been raised.
C19_ReceiveAfterBrokerUp ==
    (mqtt_rx_pc = "loop" \/ rx_dequeued \/ rx_last_cmd # NoCommand)
        => "EVENT_MQTT_CONNECTED" \in g_system_events

\* two commands arrived before the session came up; the consumer has taken
\* the first one after the signal
C19_Witness ==
    /\ "EVENT_MQTT_CONNECTED" \in g_system_events
    /\ mqtt_last_event = "CONNECTED"
    /\ g_mqtt_ctx.messages_received = 2
    /\ rx_dequeued
    /\ Len(mqtt_command_queue) = 1

\* the position of a state in Init, HardwareReady, ..., Operational, Error
C20_Rank(state) == CHOOSE i \in 1..Len(SystemStates) : SystemStates[i] = state

\* C20: every change of the overall state is a step forward along Init,
\* HardwareReady, WifiConnecting, WifiConnected, MqttConnecting,
\* MqttConnected, Operational, or a move to Error; it never moves backwards.
C20_StateMovesForward ==
    [][g_system_status'.state # g_system_status.state =>
        \/ g_system_status'.state = "ERROR"
        \/ C20_Rank(g_system_status'.state) > C20_Rank(g_system_status.state)]_vars


\* C21: the overall state becomes Error when the link manager reaches its
\* terminal Failed state (and when system_task_start_all fails to create a
\* worker), and in no other case: whenever the link manager is Failed, the
\* overall state is Error.
C21_ErrorOnLinkFailed ==
    g_wifi_ctx.state = "FAILED" => g_system_status.state = "ERROR"


\* C22: whenever system_task_get_status reports Operational or
\* MqttConnected, the link and the broker session are both connected at
\* that moment.
C22_ReportedMeansConnected ==
    g_system_status.state \in {"OPERATIONAL", "MQTT_CONNECTED"} =>
        /\ g_wifi_ctx.connected
        /\ g_mqtt_ctx.connected


\* C25: startup sequences the broker manager after the link: a step in
\* which app_mqtt_init starts the broker connection is taken only when the
\* link manager has already reported Connected (its connected flag is set,
\* or on_wifi_connected has signalled EVENT_WIFI_CONNECTED before).
C25_BrokerInitAfterLink ==
    [][(~g_mqtt_ctx.initialized /\ g_mqtt_ctx'.initialized) =>
        \/ g_wifi_ctx.connected
        \/ "EVENT_WIFI_CONNECTED" \in g_system_events]_vars


\* C23: every snapshot system_task_get_status has returned equals the status
\* record as it stood after some whole number of completed mutations; in
\* particular its state and uptime were written by the same
\* system_status_update_state call.
C23_SnapshotIsCommitted ==
    \A i \in 1..Len(status_snapshot) : status_snapshot[i] \in status_committed

\* a snapshot taken after mutations by three tasks, while the event loop is
\* between the two writes of a later system_status_update_state
C23_Witness ==
    /\ status_snapshot # <<>>
    /\ status_snapshot[1].state = "MQTT_CONNECTED"
    /\ status_snapshot[1].uptime_ms = 3
    /\ status_snapshot[1].error_count = 1
    /\ status_snapshot[1].sensor_read_count = 1
    /\ g_system_status.state = "WIFI_CONNECTED"
    /\ status_uptime_ms = 3
    /\ status_pc["event_loop"].stmts # <<>>

\* C24: error_count, sensor_read_count and sensor_error_count never decrease
\* (and so are never reset) over any interleaving of the sampler, the
\* command consumer and the health monitor.
C24_CountersNeverDecrease ==
    [][/\ g_system_status'.error_count >= g_system_status.error_count
       /\ g_system_status'.sensor_read_count >= g_system_status.sensor_read_count
       /\ g_system_status'.sensor_error_count >= g_system_status.sensor_error_count]_vars

\* the command consumer and the health monitor have both raised error_count
\* and the sampler has counted a read and an error
C24_Witness ==
    /\ g_system_status.error_count = 2
    /\ g_system_status.last_error = "APP_ERR_SENSOR_READ"
    /\ g_system_status.sensor_read_count = 1
    /\ g_system_status.sensor_error_count = 1
    /\ status_pc["mqtt_rx_task"] = StatusIdle


\* C26: whenever sensor_dht_read returns APP_OK, the returned reading has
\* is_valid = true, including in the first 1000 ms after boot.
C26_OkMeansValid ==
    (dht_call.fn = "read" /\ dht_call.ret = "APP_OK") => dht_call.out.is_valid


\* a step that is a sensor_dht_read call, with a reading to fill, on an
\* initialized sensor that has decoded successfully before
C27_ReadAfterSuccess ==
    /\ dht_toggle' # dht_toggle
    /\ dht_call'.fn = "read"
    /\ dht_call'.ret # "APP_ERR_INVALID_PARAM"
    /\ g_dht_context.initialized
    /\ dht_success # <<>>

\* C27: a sensor_dht_read call made less than 1000 ms after the previous
\* successful read (the instant sensor_dht_read sampled the clock in it)
\* returns the reading that read returned, identical in every field, and
\* does not run the wire protocol; a call made 1000 ms or more after it
\* runs the protocol.
C27_ThrottleWindow ==
    [][C27_ReadAfterSuccess =>
        IF TimeLt(TimeSub(dht_now, dht_success[1].at), DHT_MIN_INTERVAL_MS)
        THEN ~dht_call'.ran_protocol /\ dht_call'.out = dht_success[1].reading
        ELSE dht_call'.ran_protocol]_vars

\* C28: a failed sensor_dht_read (missing response or bit, checksum
\* mismatch) leaves the cached reading and the last-successful-read time
\* unchanged in every field; only the caller's reading is marked invalid.
C28_FailedReadKeepsCache ==
    [][(/\ dht_toggle' # dht_toggle
        /\ dht_call'.fn = "read"
        /\ dht_call'.ran_protocol
        /\ dht_call'.ret # "APP_OK") =>
            /\ g_dht_context' = g_dht_context
            /\ ~dht_call'.out.is_valid]_vars

\* C29: sensor_dht_is_healthy() is true exactly when the sensor is
\* initialized and a successful decode was started less than 30000 ms ago.
C29_HealthyIffRecentSuccess ==
    sensor_dht_is_healthy(g_dht_context, dht_now) <=>
        /\ g_dht_context.initialized
        /\ dht_success # <<>>
        /\ TimeLt(TimeSub(dht_now, dht_success[1].at), DHT_HEALTH_WINDOW_MS)

\* C30: for every 5-byte frame decoded from the wire, the read succeeds
\* with a valid reading iff byte4 = (byte0 + byte1 + byte2 + byte3) mod 256;
\* otherwise it returns the checksum error and the reading is invalid.
C30_ChecksumDecides ==
    (dht_call.fn = "read" /\ dht_call.decoded) =>
        IF dht_call.frame[5] = (dht_call.frame[1] + dht_call.frame[2]
                                + dht_call.frame[3] + dht_call.frame[4]) % 256
        THEN dht_call.ret = "APP_OK" /\ dht_call.out.is_valid
        ELSE dht_call.ret = "APP_ERR_SENSOR_READ" /\ ~dht_call.out.is_valid

\* a frame whose four data bytes sum to 512 was decoded and accepted
C30_Witness ==
    /\ dht_call.fn = "read"
    /\ dht_call.decoded
    /\ dht_call.frame = <<255, 1, 128, 128, 0>>
    /\ dht_call.ret = "APP_OK"
    /\ dht_call.out.is_valid
    /\ dht_call.out.humidity = 2551
    /\ g_dht_context.last_reading = dht_call.out

\* C31: a read whose wire transaction timed out (no answer from the device, or
\* a bit phase that never changed level) returns APP_ERR_TIMEOUT, a read
\* returns APP_ERR_SENSOR_READ only after a checksum mismatch, and in both
\* cases the caller's last_error is the returned code.
C31_FailureKinds ==
    (dht_call.fn = "read" /\ dht_call.ran_protocol /\ dht_call.ret # "APP_OK") =>
        /\ dht_call.event \in WireTimeouts => dht_call.ret = "APP_ERR_TIMEOUT"
        /\ dht_call.ret = "APP_ERR_SENSOR_READ" =>
              (dht_call.decoded /\ ~dht_validate_data(dht_call.frame))
        /\ dht_call.out.last_error = dht_call.ret

\* C32: once app_output_set_enabled(false) has returned on an initialized
\* module, and until the module is enabled again, the relay is OFF and the fan
\* duty is 0, on the pins and in the context, and no set_relay, set_fan_speed
\* or ramp call returns APP_OK.
C32_DisabledMeansOff ==
    (output_off_by = "set_enabled" /\ g_output_ctx.initialized) =>
        /\ gpio_relay_level = RELAY_OFF
        /\ g_output_ctx.relay_state = RELAY_OFF
        /\ ledc_channel.duty = 0
        /\ g_output_ctx.fan_speed = 0
        /\ output_call.fn \in {"set_relay", "set_fan_speed", "ramp_fan_speed"} =>
              output_call.ret # "APP_OK"

\* C33: once app_output_emergency_stop has returned, and until the module is
\* enabled again, the relay is OFF and the fan duty is 0, on the pins and in
\* the context, whatever a ramp task does.
C33_StopHolds ==
    output_off_by = "emergency_stop" =>
        /\ gpio_relay_level = RELAY_OFF
        /\ g_output_ctx.relay_state = RELAY_OFF
        /\ ledc_channel.duty = 0
        /\ g_output_ctx.fan_speed = 0

\* C34: after app_config_load, each of dht_pin, relay_pin, fan_pin, mqtt_qos
\* and the broker URI that is not stored in NVS holds its compile-time
\* default, whether the namespace cannot be opened or merely lacks the key.
C34_MissingKeyGetsDefault ==
    config_call.fn = "load" =>
        /\ \A key \in NvsU8Keys :
              (~nvs_flash.namespace \/ nvs_flash.keys[key] = <<>>) =>
                  g_app_config[key] = default_config[key]
        /\ (~nvs_flash.namespace \/ nvs_flash.keys["mqtt_broker_uri"] = <<>>) =>
              CStr(g_app_config.mqtt_broker_uri) = DEFAULT_MQTT_BROKER_URI

\* C35: app_config_save_wifi with a ssid below 32 and a password below 64
\* characters that returns APP_OK leaves exactly these credentials in the
\* configuration; app_config_load after it yields them again; a call with a
\* NULL or too long argument returns an error and changes nothing in memory.
C35_SaveWifiRoundTrip ==
    /\ (config_call.fn = "save_wifi" /\ config_call.ret = "APP_OK") =>
          /\ CStr(g_app_config.wifi_ssid) = config_saved[1].ssid
          /\ CStr(g_app_config.wifi_pass) = config_saved[1].password
    /\ (config_call.fn = "load" /\ config_saved # <<>>) =>
          /\ CStr(g_app_config.wifi_ssid) = config_saved[1].ssid
          /\ CStr(g_app_config.wifi_pass) = config_saved[1].password
    /\ (config_call.fn = "save_wifi"
          /\ config_call.ret \in {"APP_ERR_INVALID_PARAM", "APP_ERR_INVALID_VALUE"}) =>
          ~config_call.changed

\* C36: once system_task_init and then system_task_start_all with a non-NULL
\* configuration have been called, the state of the status record is not
\* Init (it is HardwareReady or a later state), now and ever after.
C36_StartedLeavesInit ==
    main_pc \notin {"task_init", "start_all", "halted"} =>
        /\ g_system_status.state # "INIT"
        /\ \E i \in 2..Len(SystemStates) : SystemStates[i] = g_system_status.state

\* start_all has returned, nothing else has run
C36_Witness ==
    /\ main_pc \in {"wifi_init", "start_failed"}
    /\ g_system_status.state = "HARDWARE_READY"

\* C37: after a link-lost event with retries remaining, the connect attempt
\* for it is issued no earlier than the computed backoff delay after the
\* event.
C37_BackoffWaited ==
    link_retry # <<>> =>
        link_retry[1].connect_at - link_retry[1].lost_at >= link_retry[1].delay_ms

\* C38: whenever the link and the broker session are connected and stay
\* connected from then on, the state eventually becomes Operational, and the
\* ready signal is never raised before a broker-connected signal.
C38_EventuallyOperational ==
    /\ []([](g_wifi_ctx.connected /\ g_mqtt_ctx.connected)
            => <>(g_system_status.state = "OPERATIONAL"))
    /\ [](("EVENT_SYSTEM_READY" \in g_system_events)
            => ("EVENT_MQTT_CONNECTED" \in g_system_events))

\* C39: a task that holds the status lock has only reads and writes of the
\* status record left to execute before it releases the lock: no logging and
\* no blocking call happens inside a critical section.
C39_CriticalSectionsOnlyTouchRecord ==
    \A t \in StatusTasks :
        status_pc[t].holding =>
            \A i \in 1..Len(status_pc[t].stmts) : status_pc[t].stmts[i].op \in RecordOps

\* C40: for every command task_mqtt_receive takes from the queue, every byte
\* app_mqtt_receive_command writes through the type pointer lies inside the
\* 16-byte type field of the control message the task passes in.
C40_TypeWritesStayInField ==
    rx_dequeued => \A i \in ReceiveTypeWrites(rx_last_cmd) : i <= CONTROL_TYPE_SIZE

=============================================================================
